---- MODULE Spec2Model ----
(***************************************************************************)
(* Ledger / payout engine of zemeny-ledger-safe-report.                    *)
(*                                                                         *)
(* The database is modelled as PostgreSQL under READ COMMITTED: every      *)
(* process reads the committed tables plus its own pending writes, an      *)
(* INSERT that collides with a committed unique key raises IntegrityError, *)
(* an INSERT that collides with another open transaction's pending row     *)
(* waits for that transaction, and SELECT ... FOR UPDATE / UPDATE wait for *)
(* the holder of the row lock.  Amounts are integers in cents.             *)
(***************************************************************************)
EXTENDS Integers, Sequences, FiniteSets, TLC

\* ------------------------------------------------------------------ bounds
NumProcs == 2        \* concurrent request threads / workers
MaxCalls == 3        \* calls arriving from outside (requests, direct calls, webhooks)
NumKeys == 1         \* idempotency keys the callers use
MaxAmount == 1       \* largest payout amount requested, in cents
MaxEntries == 2      \* ledger entries in a table given to the read model's rebuild

\* ------------------------------------------------------- program constants
process_payout_task_max_retries == 3
initiate_external_payout_max_retries == 5
complete_external_payout_max_retries == 3

CASH_ACCOUNT_CODE == "CASH_001"
PAYOUT_LIABILITY_ACCOUNT_CODE == "PAYOUT_LIABILITY_001"

NULL == "NULL"       \* SQL NULL / Python None in a nullable text column
HTTP_200_OK == 200
HTTP_201_CREATED == 201
HTTP_400_BAD_REQUEST == 400
HTTP_500_INTERNAL_SERVER_ERROR == 500

\* ------------------------------------------------------------------ inputs
Procs == 1..NumProcs
Keys == {"k" \o ToString(i) : i \in 1..NumKeys}
\* Requested amounts are in thousandths (10 is 0.01), stored ones in cents.
AmountInputs == {10 * c : c \in 0..MaxAmount}         \* 0.00, 0.01, ...
\* What the view is sent: also a negative amount and amounts with three decimal
\* places (0.001, 0.011, ...); none lies halfway between two cents.
ViewAmountInputs == AmountInputs \cup {-10} \cup {10 * c + 1 : c \in 0..MaxAmount}
OperationalAccounts == {CASH_ACCOUNT_CODE, PAYOUT_LIABILITY_ACCOUNT_CODE}
EntryAmounts == {-1, 0, 1}

VARIABLES
    accounts,          \* ledger_accounts: the account codes that exist
    transactions,      \* ledger_transactions rows
    ledger_entries,    \* ledger_entries rows
    events,            \* events rows
    account_balances,  \* account_balances rows
    payouts,           \* payouts rows
    payout_events,     \* payout_events rows; n numbers the rows of one payout in insertion order
    payout_summaries,  \* payout_summaries rows
    queue,             \* task messages held by the broker (acknowledged late)
    pc,                \* where each process stands in its handler
    local,             \* each process's Python locals
    tx,                \* each process's open DB transaction: its pending writes
    last,              \* the call that ended last: its arguments and what it returned or raised
    ncalls             \* calls that have arrived from outside

tables == <<accounts, transactions, ledger_entries, events, account_balances,
            payouts, payout_events, payout_summaries>>
vars == <<accounts, transactions, ledger_entries, events, account_balances,
          payouts, payout_events, payout_summaries, queue, pc, local, tx, last, ncalls>>

\* ----------------------------------------------------------------- helpers
RECURSIVE SeqSum(_)
SeqSum(s) == IF s = <<>> THEN 0 ELSE Head(s) + SeqSum(Tail(s))

Range(s) == {s[i] : i \in DOMAIN s}

Max(S) == CHOOSE x \in S : \A y \in S : y <= x

\* Accounts of the three other Account.ACCOUNT_TYPES, for the read model's rule.
OtherAccounts == {"EQUITY_001", "REVENUE_001", "EXPENSE_001"}

account_type(code) ==
    CASE code = CASH_ACCOUNT_CODE -> "ASSET"
      [] code = PAYOUT_LIABILITY_ACCOUNT_CODE -> "LIABILITY"
      [] code = "EQUITY_001" -> "EQUITY"
      [] code = "REVENUE_001" -> "REVENUE"
      [] code = "EXPENSE_001" -> "EXPENSE"

payout_transaction_id(idempotency_key) == "payout_" \o idempotency_key

TxnIds == {"t1", payout_transaction_id("k1")}

\* The entries_data lists a caller may post: 1 to 3 entries; the first debits the
\* liability account, the others credit the cash account (as process_payout does).
EntryAt(i, amount) ==
    [account |-> IF i = 1 THEN PAYOUT_LIABILITY_ACCOUNT_CODE ELSE CASH_ACCOUNT_CODE,
     amount |-> amount,
     entry_type |-> IF i = 1 THEN "DEBIT" ELSE "CREDIT"]

EntryLists ==
    UNION {{[i \in 1..n |-> EntryAt(i, f[i])] : f \in [1..n -> EntryAmounts]} : n \in 1..3}

\* ------------------------------------------------------- open transactions
EmptyTx == [payouts |-> {}, payout_events |-> <<>>, transactions |-> {},
            ledger_entries |-> {}]

NoLocal == [op |-> "none"]

None_ext == [prefix |-> "None"]     \* Python None as an external payout id

\* uuid.uuid4(): a value no stored or pending row carries.
UsedUuids ==
    {r.id : r \in payouts} \cup {r.id : r \in transactions}
    \cup {e.event_id.uuid : e \in events}
    \cup {r.external_payout_id.uuid : r \in {x \in payouts : x.external_payout_id # None_ext}}
    \cup {e.event_data.external_payout_id.uuid :
             e \in {x \in payout_events : x.event_type = "EXTERNAL_PAYOUT_INITIATED"}}
    \cup UNION {{r.id : r \in tx[p].payouts} \cup {r.id : r \in tx[p].transactions} : p \in Procs}

uuid4_besides(taken) ==
    CHOOSE n \in 1..(Cardinality(UsedUuids \cup taken) + 1) : n \notin UsedUuids \cup taken

uuid4 == uuid4_besides({})

\* ------------------------------------------------------------------ events
\* Event.get_next_sequence_number: (MAX(sequence_number) or 0) + 1 over the rows
\* the caller's transaction can see.
get_next_sequence_number(evs) ==
    IF evs = {} THEN 1 ELSE Max({e.sequence_number : e \in evs}) + 1

\* The events table's constraints: event_id unique and not empty,
\* sequence_number unique and positive.
\* Variant: events without the unique constraint on sequence_number.
sequence_number_unconstrained(evs, seq) == TRUE

sequence_number_unique(evs, seq) == \A e \in evs : e.sequence_number # seq

event_insert_ok(evs, ev) ==
    /\ \A e \in evs : e.event_id # ev.event_id
    /\ sequence_number_unique(evs, ev.sequence_number)
    /\ ev.sequence_number > 0

Event(event_id, event_type, aggregate_id, aggregate_type, event_data, seq) ==
    [event_id |-> event_id, event_type |-> event_type, aggregate_id |-> aggregate_id,
     aggregate_type |-> aggregate_type, event_data |-> event_data,
     sequence_number |-> seq]

\* ------------------------------------------------------------------ ledger
\* sum(Decimal(str(entry['amount'])) for entry in entries_data)
total(entries_data) == SeqSum([i \in DOMAIN entries_data |-> entries_data[i].amount])

entries_of(rows, trans_id) == {e \in rows : e.transaction = trans_id}

\* LedgerEntry.objects.filter(transaction=trans).aggregate(Sum('amount')) or 0
aggregate_Sum_amount(rows, trans_id) ==
    LET es == entries_of(rows, trans_id)
    IN SeqSum([i \in 1..Cardinality(es) |-> (CHOOSE e \in es : e.idx = i).amount])

\* Transaction.verify_balance
verify_balance(rows, trans_id) == aggregate_Sum_amount(rows, trans_id) = 0

\* Variant: ledger_entries without the check constraint on amount.
ledger_entry_amount_unchecked(amount) == TRUE

\* CheckConstraint ledger_entry_amount_non_negative
ledger_entry_amount_non_negative(amount) == amount >= 0

\* Variant: ledger_transactions without the unique constraint on transaction_id.
transaction_id_unconstrained(txns, transaction_id) == TRUE

\* unique=True on Transaction.transaction_id, CheckConstraint transaction_id_not_empty
transaction_id_free(txns, transaction_id) ==
    /\ transaction_id # ""
    /\ \A t \in txns : t.transaction_id # transaction_id

LedgerEntryRows(trans_id, entries_data) ==
    {[transaction |-> trans_id, idx |-> i, account |-> entries_data[i].account,
      amount |-> entries_data[i].amount, entry_type |-> entries_data[i].entry_type]
       : i \in DOMAIN entries_data}

\* Variant: the posting without the check of the number of entries.
create_transaction_outcome_any_length(transaction_id, entries_data, txns, accts) ==
    IF total(entries_data) # 0 THEN "ValueError"
    ELSE IF ~transaction_id_free(txns, transaction_id) THEN "IntegrityError"
    ELSE IF \E i \in DOMAIN entries_data :
               ~ledger_entry_amount_non_negative(entries_data[i].amount)
         THEN "IntegrityError"
    ELSE IF \E i \in DOMAIN entries_data : entries_data[i].account \notin accts
         THEN "IntegrityError"
    ELSE IF ~verify_balance(LedgerEntryRows(0, entries_data), 0) THEN "ValueError"
    ELSE "ok"

\* Variant: the posting without its two balance verifications (the sum of the
\* arguments before the insert, the stored sum after it).
create_transaction_outcome_unverified(transaction_id, entries_data, txns, accts) ==
    IF Len(entries_data) # 2 THEN "ValueError"
    ELSE IF ~transaction_id_free(txns, transaction_id) THEN "IntegrityError"
    ELSE IF \E i \in DOMAIN entries_data :
               ~ledger_entry_amount_non_negative(entries_data[i].amount)
         THEN "IntegrityError"
    ELSE IF \E i \in DOMAIN entries_data : entries_data[i].account \notin accts
         THEN "IntegrityError"
    ELSE "ok"

\* What Transaction.create_transaction does with its arguments against the committed
\* transactions txns and the accounts accts: "ok", or the exception it raises.
create_transaction_outcome(transaction_id, entries_data, txns, accts) ==
    IF Len(entries_data) # 2 THEN "ValueError"
    ELSE IF total(entries_data) # 0 THEN "ValueError"
    ELSE IF ~transaction_id_free(txns, transaction_id) THEN "IntegrityError"
    ELSE IF \E i \in DOMAIN entries_data :
               ~ledger_entry_amount_non_negative(entries_data[i].amount)
         THEN "IntegrityError"
    ELSE IF \E i \in DOMAIN entries_data : entries_data[i].account \notin accts
         THEN "IntegrityError"
    ELSE IF ~verify_balance(LedgerEntryRows(0, entries_data), 0) THEN "ValueError"
    ELSE "ok"

\* ------------------------------------------------------------ read models
\* Variant: debits add and credits subtract whatever the account's type.
contribution_debit_normal(code, entry) ==
    IF entry.entry_type = "DEBIT" THEN entry.amount ELSE -entry.amount

\* The fold of AccountBalance.rebuild_for_account over the entries of one account.
contribution(code, entry) ==
    IF account_type(code) \in {"ASSET", "EXPENSE"}
    THEN IF entry.entry_type = "DEBIT" THEN entry.amount ELSE -entry.amount
    ELSE IF entry.entry_type = "CREDIT" THEN entry.amount ELSE -entry.amount

RECURSIVE rebuild_balance(_, _)
rebuild_balance(code, rows) ==
    IF rows = {} THEN 0
    ELSE LET e == CHOOSE x \in rows : TRUE
         IN (IF e.account = code THEN contribution(code, e) ELSE 0)
            + rebuild_balance(code, rows \ {e})

\* The AccountBalance rows of the account code.
balance_rows(code) == {b \in account_balances : b.account = code}

\* Variant: the balance is added to the stored one.
update_or_create_balance_accumulating(bals, code, balance) ==
    IF \E b \in bals : b.account = code
    THEN {IF b.account = code THEN [b EXCEPT !.balance = b.balance + balance] ELSE b
             : b \in bals}
    ELSE bals \cup {[account |-> code, balance |-> balance, last_event_sequence |-> 0]}

\* Variant: the read model is not written.
update_or_create_balance_skipped(bals, code, balance) == bals

\* cls.objects.update_or_create(account=account, defaults={'balance': balance})
update_or_create_balance(bals, code, balance) ==
    IF \E b \in bals : b.account = code
    THEN {IF b.account = code THEN [b EXCEPT !.balance = balance] ELSE b : b \in bals}
    ELSE bals \cup {[account |-> code, balance |-> balance, last_event_sequence |-> 0]}

\* AccountBalance.rebuild_for_account for every account in codes, over the entries rows.
RECURSIVE rebuild_for_accounts(_, _, _)
rebuild_for_accounts(bals, codes, rows) ==
    IF codes = {} THEN bals
    ELSE LET c == CHOOSE x \in codes : TRUE
         IN rebuild_for_accounts(update_or_create_balance(bals, c, rebuild_balance(c, rows)),
                                 codes \ {c}, rows)

\* -------------------------------------------------------------------- Init
Init ==
    /\ accounts \in {{}, OperationalAccounts}
    /\ transactions = {}
    /\ ledger_entries = {}
    /\ events = {}
    /\ account_balances = {}
    /\ payouts = {}
    /\ payout_events = {}
    /\ payout_summaries = {}
    /\ queue = {}
    /\ pc = [p \in Procs |-> "idle"]
    /\ local = [p \in Procs |-> NoLocal]
    /\ tx = [p \in Procs |-> EmptyTx]
    /\ last = [op |-> "none", tick |-> 0]
    /\ ncalls = 0

\* The call described by rec has ended: it is the last one now (tick flips at every end).
Ended(rec) == last' = [tick |-> 1 - last.tick] @@ rec

\* Process p may take the next call: it is idle, and so is no process before it (idle
\* processes are interchangeable).
free(p) == pc[p] = "idle" /\ \A q \in Procs : q < p => pc[q] # "idle"

\* manage.py init_accounts: get_or_create of the two operational accounts.
init_accounts ==
    /\ accounts # OperationalAccounts
    /\ accounts' = OperationalAccounts
    /\ UNCHANGED <<transactions, ledger_entries, events, account_balances, payouts,
                   payout_events, payout_summaries, queue, pc, local, tx, last, ncalls>>

\* ---------------------------------------------------------- ledger posting
\* Another open transaction holds an uncommitted row with this transaction_id: the
\* INSERT waits for it.
transaction_id_pending(p, transaction_id) ==
    \E q \in Procs \ {p} : \E t \in tx[q].transactions : t.transaction_id = transaction_id

reaches_insert(entries_data) == Len(entries_data) = 2 /\ total(entries_data) = 0

LedgerCall(op, transaction_id, entries_data, out) ==
    [op |-> op, outcome |-> out, transaction_id |-> transaction_id,
     n_entries |-> Len(entries_data), balanced |-> total(entries_data) = 0,
     amount |-> entries_data[1].amount]

\* Transaction.create_transaction called on its own (one DB transaction).
Transaction_create_transaction(p) ==
    /\ free(p)
    /\ ncalls < MaxCalls
    /\ \E transaction_id \in TxnIds, entries_data \in EntryLists :
        /\ reaches_insert(entries_data) => ~transaction_id_pending(p, transaction_id)
        /\ LET out == create_transaction_outcome(transaction_id, entries_data,
                                                 transactions, accounts)
               trans == [id |-> uuid4, transaction_id |-> transaction_id,
                         status |-> "COMPLETED"]
           IN /\ transactions' = IF out = "ok" THEN transactions \cup {trans}
                                 ELSE transactions
              /\ ledger_entries' = IF out = "ok"
                                   THEN ledger_entries \cup LedgerEntryRows(trans.id, entries_data)
                                   ELSE ledger_entries
              /\ Ended(LedgerCall("Transaction.create_transaction", transaction_id,
                                  entries_data, out))
    /\ ncalls' = ncalls + 1
    /\ UNCHANGED <<accounts, events, account_balances, payouts, payout_events,
                   payout_summaries, queue, pc, local, tx>>

\* LedgerService.create_transaction, first part: Transaction.create_transaction (the
\* rows are inserted in the caller's open transaction).
LedgerService_create_transaction(p) ==
    /\ free(p)
    /\ ncalls < MaxCalls
    /\ \E transaction_id \in TxnIds, entries_data \in EntryLists :
        /\ reaches_insert(entries_data) => ~transaction_id_pending(p, transaction_id)
        /\ LET out == create_transaction_outcome(transaction_id, entries_data,
                                                 transactions, accounts)
               trans == [id |-> uuid4, transaction_id |-> transaction_id,
                         status |-> "COMPLETED"]
           IN IF out = "ok"
              THEN /\ tx' = [tx EXCEPT ![p] =
                        [EmptyTx EXCEPT !.transactions = {trans},
                                        !.ledger_entries = LedgerEntryRows(trans.id, entries_data)]]
                   /\ local' = [local EXCEPT ![p] =
                        [op |-> "LedgerService.create_transaction",
                         transaction_id |-> transaction_id, entries_data |-> entries_data,
                         trans |-> trans]]
                   /\ pc' = [pc EXCEPT ![p] = "ledger_seq"]
                   /\ UNCHANGED last
              ELSE /\ Ended(LedgerCall("LedgerService.create_transaction", transaction_id,
                                       entries_data, out))
                   /\ UNCHANGED <<tx, local, pc>>
    /\ ncalls' = ncalls + 1
    /\ UNCHANGED <<accounts, transactions, ledger_entries, events, account_balances,
                   payouts, payout_events, payout_summaries, queue>>

\* LedgerService.create_transaction, Event.create_event up to reading the next
\* sequence number over the committed events.
LedgerService_next_sequence_number(p) ==
    /\ pc[p] = "ledger_seq"
    /\ local' = [local EXCEPT ![p] =
          [op |-> local[p].op, transaction_id |-> local[p].transaction_id,
           entries_data |-> local[p].entries_data, trans |-> local[p].trans,
           sequence_number |-> get_next_sequence_number(events)]]
    /\ pc' = [pc EXCEPT ![p] = "ledger_event"]
    /\ UNCHANGED <<accounts, transactions, ledger_entries, events, account_balances,
                   payouts, payout_events, payout_summaries, queue, tx, last, ncalls>>

\* Variant: the posting commits by itself and the event is appended after it, so a
\* failing append leaves the Transaction stored.
LedgerService_emit_event_detached(p) ==
    /\ pc[p] = "ledger_event"
    /\ LET l == local[p]
           ev == Event([prefix |-> "ledger_txn", key |-> l.transaction_id, uuid |-> uuid4],
                       "LEDGER_TRANSACTION_CREATED", l.trans.id, "Transaction",
                       [transaction_id |-> l.transaction_id], l.sequence_number)
           rows == ledger_entries \cup tx[p].ledger_entries
       IN /\ transactions' = transactions \cup tx[p].transactions
          /\ ledger_entries' = rows
          /\ account_balances' =
               rebuild_for_accounts(account_balances,
                                    {e.account : e \in tx[p].ledger_entries}, rows)
          /\ events' = IF event_insert_ok(events, ev) THEN events \cup {ev} ELSE events
          /\ Ended(LedgerCall(l.op, l.transaction_id, l.entries_data,
                              IF event_insert_ok(events, ev) THEN "ok" ELSE "IntegrityError"))
    /\ tx' = [tx EXCEPT ![p] = EmptyTx]
    /\ local' = [local EXCEPT ![p] = NoLocal]
    /\ pc' = [pc EXCEPT ![p] = "idle"]
    /\ UNCHANGED <<accounts, payouts, payout_events, payout_summaries, queue, ncalls>>

\* LedgerService.create_transaction, last part: the event's INSERT, the rebuild of
\* the balance of each entry's account, and the commit (or the rollback of it all).
LedgerService_emit_event(p) ==
    /\ pc[p] = "ledger_event"
    /\ LET l == local[p]
           ev == Event([prefix |-> "ledger_txn", key |-> l.transaction_id, uuid |-> uuid4],
                       "LEDGER_TRANSACTION_CREATED", l.trans.id, "Transaction",
                       [transaction_id |-> l.transaction_id], l.sequence_number)
           rows == ledger_entries \cup tx[p].ledger_entries
       IN IF event_insert_ok(events, ev)
          THEN /\ transactions' = transactions \cup tx[p].transactions
               /\ ledger_entries' = rows
               /\ events' = events \cup {ev}
               /\ account_balances' =
                    rebuild_for_accounts(account_balances,
                                         {e.account : e \in tx[p].ledger_entries}, rows)
               /\ Ended(LedgerCall(l.op, l.transaction_id, l.entries_data, "ok"))
          ELSE /\ Ended(LedgerCall(l.op, l.transaction_id, l.entries_data, "IntegrityError"))
               /\ UNCHANGED <<transactions, ledger_entries, events, account_balances>>
    /\ tx' = [tx EXCEPT ![p] = EmptyTx]
    /\ local' = [local EXCEPT ![p] = NoLocal]
    /\ pc' = [pc EXCEPT ![p] = "idle"]
    /\ UNCHANGED <<accounts, payouts, payout_events, payout_summaries, queue, ncalls>>

\* ----------------------------------------------------------------- payouts
Payout(id, idempotency_key, amount) ==
    [id |-> id, idempotency_key |-> idempotency_key, amount |-> amount,
     status |-> "PENDING", ledger_transaction_id |-> NULL,
     external_payout_id |-> None_ext, external_reference |-> None_ext,
     error_message |-> NULL, retry_count |-> 0]

\* PayoutEvent.objects.create for one payout, one row per event type in types.
RECURSIVE create_payout_events(_, _, _)
create_payout_events(rows, payout_id, types) ==
    IF types = <<>> THEN rows
    ELSE create_payout_events(
            rows \cup {[payout |-> payout_id,
                        n |-> Cardinality({r \in rows : r.payout = payout_id}) + 1,
                        event_type |-> Head(types).event_type,
                        event_data |-> Head(types).event_data]},
            payout_id, Tail(types))

PayoutEventData(event_type, event_data) ==
    [event_type |-> event_type, event_data |-> event_data]

\* Variant: payouts without the unique constraint on idempotency_key.
idempotency_key_unconstrained(rows, idempotency_key) == TRUE

\* unique=True on Payout.idempotency_key against the committed rows
idempotency_key_free(rows, idempotency_key) ==
    \A r \in rows : r.idempotency_key # idempotency_key

\* DecimalField(max_digits=19, decimal_places=2) when the row is written: the amount
\* (in thousandths) is rounded to the nearest cent.
quantize(amount) == IF amount % 10 < 5 THEN amount \div 10 ELSE amount \div 10 + 1

\* CheckConstraints idempotency_key_not_empty and payout_amount_positive
payout_checks_ok(idempotency_key, amount) == idempotency_key # "" /\ amount > 0

\* Another open transaction holds an uncommitted payout with this key: the INSERT waits.
idempotency_key_pending(p, idempotency_key) ==
    \E q \in Procs \ {p} : \E r \in tx[q].payouts : r.idempotency_key = idempotency_key

\* Another open transaction holds the row lock of this payout (mark_processing's
\* select_for_update, kept until process_payout commits).
row_locked(p, payout_id) ==
    \E q \in Procs \ {p} : pc[q] = "pp_event" /\ local[q].payout_id = payout_id

ProcessMessage(payout_id) ==
    [task |-> "process_payout_task", payout_id |-> payout_id,
     external_payout_id |-> None_ext, retries |-> 0]

\* The view's answer: 400 on a ValidationError, 500 on any other exception, and for the
\* payout initiate_payout returned 201 if its status is PENDING, else 200.
create_payout_response(outcome, status) ==
    IF outcome = "ValidationError" THEN HTTP_400_BAD_REQUEST
    ELSE IF outcome # "ok" THEN HTTP_500_INTERNAL_SERVER_ERROR
    ELSE IF status = "PENDING" THEN HTTP_201_CREATED
    ELSE HTTP_200_OK

\* status: the status of the payout handed back, NULL when the call raised; response:
\* the HTTP status of the view, 0 for a direct call of the service.
AdmissionCall(l, outcome, created, payout_id, status) ==
    [op |-> l.op, outcome |-> outcome, idempotency_key |-> l.idempotency_key,
     amount |-> l.amount, created |-> created, payout_id |-> payout_id,
     response |-> IF l.op = "create_payout" THEN create_payout_response(outcome, status)
                  ELSE 0]

\* Variant: an admission that does not look for the existing payout and goes straight
\* to the INSERT.
get_or_create_pending_no_select(p, via_view, idempotency_key, amount) ==
    IF via_view /\ amount <= 0
    THEN /\ Ended(AdmissionCall([op |-> "create_payout", idempotency_key |-> idempotency_key,
                                 amount |-> amount],
                                "ValidationError", FALSE, 0, NULL))
         /\ UNCHANGED <<queue, pc, local>>
    ELSE /\ pc' = [pc EXCEPT ![p] = "ip_insert"]
         /\ local' = [local EXCEPT ![p] =
               [op |-> IF via_view THEN "create_payout" ELSE "initiate_payout",
                idempotency_key |-> idempotency_key, amount |-> amount]]
         /\ UNCHANGED <<queue, last>>

\* Payout.get_or_create_pending, the SELECT ... FOR UPDATE: the existing payout, which
\* initiate_payout returns as it is, or DoesNotExist and on to the INSERT.  via_view:
\* the call comes from the view create_payout, which validates the amount first and
\* enqueues process_payout_task for the payout it gets back.
get_or_create_pending_select(p, via_view, idempotency_key, amount) ==
    LET l == [op |-> IF via_view THEN "create_payout" ELSE "initiate_payout",
              idempotency_key |-> idempotency_key, amount |-> amount]
        found == {r \in payouts : r.idempotency_key = idempotency_key}
    IN IF via_view /\ amount <= 0
       THEN /\ Ended(AdmissionCall(l, "ValidationError", FALSE, 0, NULL))
            /\ UNCHANGED <<queue, pc, local>>
       ELSE IF found # {}
       THEN LET payout == CHOOSE r \in found : TRUE
            IN /\ ~row_locked(p, payout.id)
               /\ Ended(AdmissionCall(l, "ok", FALSE, payout.id, payout.status))
               /\ queue' = IF via_view THEN queue \cup {ProcessMessage(payout.id)}
                           ELSE queue
               /\ UNCHANGED <<pc, local>>
       ELSE /\ pc' = [pc EXCEPT ![p] = "ip_insert"]
            /\ local' = [local EXCEPT ![p] = l]
            /\ UNCHANGED <<queue, last>>

\* PayoutService.initiate_payout called directly.
initiate_payout(p) ==
    /\ free(p)
    /\ ncalls < MaxCalls
    /\ \E idempotency_key \in Keys, amount \in AmountInputs :
          get_or_create_pending_select(p, FALSE, idempotency_key, amount)
    /\ ncalls' = ncalls + 1
    /\ UNCHANGED <<accounts, transactions, ledger_entries, events, account_balances,
                   payouts, payout_events, payout_summaries, tx>>

\* The view create_payout (POST /api/payouts/).
create_payout(p) ==
    /\ free(p)
    /\ ncalls < MaxCalls
    /\ \E idempotency_key \in Keys, amount \in ViewAmountInputs :
          get_or_create_pending_select(p, TRUE, idempotency_key, amount)
    /\ ncalls' = ncalls + 1
    /\ UNCHANGED <<accounts, transactions, ledger_entries, events, account_balances,
                   payouts, payout_events, payout_summaries, tx>>

\* Payout.get_or_create_pending, the INSERT; then PayoutEvent CREATED and
\* Event.create_event up to reading the next sequence number.
get_or_create_pending_insert(p) ==
    /\ pc[p] = "ip_insert"
    /\ LET l == local[p]
           payout == Payout(uuid4, l.idempotency_key, quantize(l.amount))
       IN IF ~payout_checks_ok(l.idempotency_key, payout.amount)
             \/ ~idempotency_key_free(payouts, l.idempotency_key)
          THEN /\ Ended(AdmissionCall(l,
                    IF ~payout_checks_ok(l.idempotency_key, payout.amount)
                    THEN "IntegrityError(check)" ELSE "IntegrityError(idempotency_key)",
                    FALSE, 0, NULL))
               /\ pc' = [pc EXCEPT ![p] = "idle"]
               /\ local' = [local EXCEPT ![p] = NoLocal]
               /\ UNCHANGED tx
          ELSE /\ ~idempotency_key_pending(p, l.idempotency_key)
               /\ tx' = [tx EXCEPT ![p] = [EmptyTx EXCEPT !.payouts = {payout}]]
               /\ local' = [local EXCEPT ![p] =
                    [op |-> l.op, idempotency_key |-> l.idempotency_key,
                     amount |-> l.amount,
                     sequence_number |-> get_next_sequence_number(events)]]
               /\ pc' = [pc EXCEPT ![p] = "ip_event"]
               /\ UNCHANGED last
    /\ UNCHANGED <<accounts, transactions, ledger_entries, events, account_balances,
                   payouts, payout_events, payout_summaries, queue, ncalls>>

\* initiate_payout, the rest: the PAYOUT_CREATED event's INSERT, PayoutSummary, commit
\* (or the rollback of it all); the view then enqueues process_payout_task.
initiate_payout_commit(p) ==
    /\ pc[p] = "ip_event"
    /\ LET l == local[p]
           payout == CHOOSE r \in tx[p].payouts : TRUE
           ev == Event([prefix |-> "payout_created", key |-> l.idempotency_key,
                        uuid |-> uuid4],
                       "PAYOUT_CREATED", payout.id, "Payout",
                       [idempotency_key |-> l.idempotency_key], l.sequence_number)
       IN IF event_insert_ok(events, ev)
          THEN /\ payouts' = payouts \cup {payout}
               /\ payout_events' = create_payout_events(payout_events, payout.id,
                      <<PayoutEventData("CREATED", [idempotency_key |-> l.idempotency_key])>>)
               /\ events' = events \cup {ev}
               /\ payout_summaries' = payout_summaries \cup
                      {[payout |-> payout.id, total_amount |-> quantize(l.amount),
                        status |-> "PENDING"]}
               /\ queue' = IF l.op = "create_payout"
                           THEN queue \cup {ProcessMessage(payout.id)} ELSE queue
               /\ Ended(AdmissionCall(l, "ok", TRUE, payout.id, payout.status))
          ELSE /\ Ended(AdmissionCall(l, "IntegrityError(sequence_number)", FALSE, 0, NULL))
               /\ UNCHANGED <<payouts, payout_events, events, payout_summaries, queue>>
    /\ tx' = [tx EXCEPT ![p] = EmptyTx]
    /\ local' = [local EXCEPT ![p] = NoLocal]
    /\ pc' = [pc EXCEPT ![p] = "idle"]
    /\ UNCHANGED <<accounts, transactions, ledger_entries, account_balances, ncalls>>

\* ------------------------------------------------------------------- tasks
\* raise self.retry(exc=exc): the message is published again with retries + 1, unless
\* max_retries is reached; the delivered message is acknowledged either way.
retry(m, max_retries) ==
    IF m.retries < max_retries THEN {[m EXCEPT !.retries = m.retries + 1]} ELSE {}

TaskCall(m, outcome, returned, status_before, status_after, retried) ==
    [op |-> m.task, outcome |-> outcome, returned |-> returned,
     status_before |-> status_before,
     status_after |-> status_after, retry_scheduled |-> retried]

payout_by_id(payout_id) == CHOOSE r \in payouts : r.id = payout_id

\* Variant: mark_failed that stores the status and leaves error_message as it was.
mark_failed_status_only(payout, error_message) ==
    [payout EXCEPT !.status = "FAILED", !.retry_count = payout.retry_count + 1]

\* Payout.mark_failed
mark_failed(payout, error_message) ==
    [payout EXCEPT !.status = "FAILED", !.error_message = error_message,
                   !.retry_count = payout.retry_count + 1]

\* Payout.mark_completed on the in-memory object
mark_completed(payout, external_payout_id, external_reference) ==
    [payout EXCEPT !.status = "COMPLETED",
                   !.external_payout_id =
                       IF external_payout_id # None_ext THEN external_payout_id
                       ELSE payout.external_payout_id,
                   !.external_reference = external_reference]

\* A task message published from outside the engine (a webhook, an operator, a test).
task_delay ==
    /\ ncalls < MaxCalls
    /\ \E task \in {"process_payout_task", "initiate_external_payout",
                    "complete_external_payout"},
          payout_id \in {r.id : r \in payouts} \cup {0},
          ext \in {None_ext, [prefix |-> "ext", key |-> "k1", uuid |-> 0]} :
        /\ task # "complete_external_payout" => ext = None_ext
        /\ queue' = queue \cup {[task |-> task, payout_id |-> payout_id,
                                 external_payout_id |-> ext, retries |-> 0]}
    /\ ncalls' = ncalls + 1
    /\ UNCHANGED <<accounts, transactions, ledger_entries, events, account_balances,
                   payouts, payout_events, payout_summaries, pc, local, tx, last>>

\* process_payout_task up to the call of process_payout.
process_payout_task(p) ==
    /\ free(p)
    /\ \E m \in queue :
        /\ m.task = "process_payout_task"
        /\ IF \A r \in payouts : r.id # m.payout_id
           THEN /\ Ended(TaskCall(m, "returned", "Payout not found", NULL, NULL, FALSE))
                /\ queue' = queue \ {m}
                /\ UNCHANGED <<pc, local>>
           ELSE IF payout_by_id(m.payout_id).status \in {"COMPLETED", "FAILED"}
           THEN /\ Ended(TaskCall(m, "returned", "Already processed",
                                  payout_by_id(m.payout_id).status,
                                  payout_by_id(m.payout_id).status, FALSE))
                /\ queue' = queue \ {m}
                /\ UNCHANGED <<pc, local>>
           ELSE /\ pc' = [pc EXCEPT ![p] = "pp_mark"]
                /\ local' = [local EXCEPT ![p] =
                      [op |-> m.task, msg |-> m, payout_id |-> m.payout_id]]
                /\ UNCHANGED <<queue, last>>
    /\ UNCHANGED <<accounts, transactions, ledger_entries, events, account_balances,
                   payouts, payout_events, payout_summaries, tx, ncalls>>

\* Variant: mark_processing without its status check.
may_process_any(status) == TRUE

\* Payout.mark_processing's status check: only a PENDING payout may be processed.
may_process(status) == status = "PENDING"

\* process_payout: Payout.mark_processing (the row lock, the status check, PROCESSING),
\* PayoutEvent PROCESSING_STARTED and Event.create_event up to reading the next
\* sequence number.  A ValueError leaves process_payout and the task retries.
mark_processing(p) ==
    /\ pc[p] = "pp_mark"
    /\ ~row_locked(p, local[p].payout_id)
    /\ LET l == local[p]
           payout == payout_by_id(l.payout_id)
       IN IF ~may_process(payout.status)
          THEN /\ Ended(TaskCall(l.msg, "ValueError", "Cannot process payout in status",
                                 payout.status, payout.status,
                                 l.msg.retries < process_payout_task_max_retries))
               /\ queue' = (queue \ {l.msg})
                           \cup retry(l.msg, process_payout_task_max_retries)
               /\ pc' = [pc EXCEPT ![p] = "idle"]
               /\ local' = [local EXCEPT ![p] = NoLocal]
          ELSE /\ pc' = [pc EXCEPT ![p] = "pp_event"]
               /\ local' = [local EXCEPT ![p] =
                     [op |-> l.op, msg |-> l.msg, payout_id |-> l.payout_id,
                      sequence_number |-> get_next_sequence_number(events)]]
               /\ UNCHANGED <<queue, last>>
    /\ UNCHANGED <<accounts, transactions, ledger_entries, events, account_balances,
                   payouts, payout_events, payout_summaries, tx, ncalls>>

\* The entries process_payout posts for a payout.
payout_entries_data(payout) ==
    <<[account |-> PAYOUT_LIABILITY_ACCOUNT_CODE, amount |-> payout.amount,
       entry_type |-> "DEBIT"],
      [account |-> CASH_ACCOUNT_CODE, amount |-> payout.amount,
       entry_type |-> "CREDIT"]>>

\* process_payout after the PAYOUT_PROCESSING event ev is inserted: the tables and the
\* payout as its transaction leaves them, and whether initiate_external_payout is
\* enqueued.  payout is the locked row, already PROCESSING.
process_payout_rest(payout, ev) ==
    LET evs == events \cup {ev}
        pes == create_payout_events(payout_events, payout.id,
                                    <<PayoutEventData("PROCESSING_STARTED", <<>>)>>)
        failed(msg) ==
            [payout |-> mark_failed(payout, msg), transactions |-> transactions,
             ledger_entries |-> ledger_entries, events |-> evs, payout_events |-> pes,
             account_balances |-> account_balances, enqueue |-> FALSE]
        transaction_id == payout_transaction_id(payout.idempotency_key)
        entries_data == payout_entries_data(payout)
        out == create_transaction_outcome(transaction_id, entries_data, transactions,
                                          accounts)
        trans == [id |-> uuid4_besides({ev.event_id.uuid}),
                  transaction_id |-> transaction_id, status |-> "COMPLETED"]
        rows == ledger_entries \cup LedgerEntryRows(trans.id, entries_data)
        lev == Event([prefix |-> "ledger_txn", key |-> transaction_id,
                      uuid |-> uuid4_besides({ev.event_id.uuid, trans.id})],
                     "LEDGER_TRANSACTION_CREATED", trans.id, "Transaction",
                     [transaction_id |-> transaction_id], get_next_sequence_number(evs))
    IN IF ~(OperationalAccounts \subseteq accounts)
       THEN failed("Required accounts not found")
       ELSE IF out # "ok" THEN failed(out)
       ELSE IF ~event_insert_ok(evs, lev) THEN failed("IntegrityError")
       ELSE [payout |-> [payout EXCEPT !.ledger_transaction_id = transaction_id],
             transactions |-> transactions \cup {trans},
             ledger_entries |-> rows,
             events |-> evs \cup {lev},
             payout_events |-> create_payout_events(pes, payout.id,
                  <<PayoutEventData("LEDGER_ENTRY_CREATED",
                                    [transaction_id |-> transaction_id])>>),
             account_balances |-> rebuild_for_accounts(account_balances,
                  {entries_data[i].account : i \in DOMAIN entries_data}, rows),
             enqueue |-> TRUE]

\* process_payout, the rest: the PAYOUT_PROCESSING event's INSERT, the accounts, the
\* ledger posting, and the commit (or, when the event's INSERT fails, the rollback of
\* it all and the task's retry).
process_payout(p) ==
    /\ pc[p] = "pp_event"
    /\ LET l == local[p]
           before == payout_by_id(l.payout_id)
           payout == [before EXCEPT !.status = "PROCESSING"]
           ev == Event([prefix |-> "payout_processing", key |-> payout.idempotency_key,
                        uuid |-> uuid4],
                       "PAYOUT_PROCESSING", payout.id, "Payout",
                       [idempotency_key |-> payout.idempotency_key], l.sequence_number)
           new == process_payout_rest(payout, ev)
       IN IF ~event_insert_ok(events, ev)
          THEN /\ Ended(TaskCall(l.msg, "IntegrityError", "sequence_number",
                                 before.status, before.status,
                                 l.msg.retries < process_payout_task_max_retries))
               /\ queue' = (queue \ {l.msg})
                           \cup retry(l.msg, process_payout_task_max_retries)
               /\ UNCHANGED <<transactions, ledger_entries, events, account_balances,
                              payouts, payout_events>>
          ELSE /\ (OperationalAccounts \subseteq accounts
                   /\ reaches_insert(payout_entries_data(payout)))
                  => ~transaction_id_pending(p, payout_transaction_id(payout.idempotency_key))
               /\ payouts' = (payouts \ {before}) \cup {new.payout}
               /\ transactions' = new.transactions
               /\ ledger_entries' = new.ledger_entries
               /\ events' = new.events
               /\ payout_events' = new.payout_events
               /\ account_balances' = new.account_balances
               /\ queue' = (queue \ {l.msg}) \cup
                     (IF new.enqueue
                      THEN {[task |-> "initiate_external_payout", payout_id |-> payout.id,
                             external_payout_id |-> None_ext, retries |-> 0]}
                      ELSE {})
               /\ Ended([accounts_found |-> OperationalAccounts \subseteq accounts,
                         ledger_existed |-> \E t \in transactions : t.transaction_id =
                              payout_transaction_id(payout.idempotency_key)]
                        @@ TaskCall(l.msg, "returned", "processed", before.status,
                                    new.payout.status, FALSE))
    /\ pc' = [pc EXCEPT ![p] = "idle"]
    /\ local' = [local EXCEPT ![p] = NoLocal]
    /\ UNCHANGED <<accounts, payout_summaries, tx, ncalls>>

\* payout.save(update_fields=[...]): the UPDATE writes the listed columns of the
\* in-memory object obj over the stored row.
save_external_payout_id(row, obj) ==
    [row EXCEPT !.external_payout_id = obj.external_payout_id]

save_completed(row, obj) ==
    [row EXCEPT !.status = obj.status,
                !.external_payout_id = obj.external_payout_id,
                !.external_reference = obj.external_reference]

\* initiate_external_payout (no DB transaction: every statement commits on its own).
\* First the read of the payout, the checks, the new external id and PayoutEvent
\* EXTERNAL_PAYOUT_INITIATED; then, at "ie_save", the UPDATE of external_payout_id
\* and the publishing of complete_external_payout.
initiate_external_payout(p) ==
    /\ IF pc[p] = "ie_save"
       THEN LET l == local[p]
            IN /\ ~row_locked(p, l.payout_id)
               /\ payouts' = (payouts \ {payout_by_id(l.payout_id)})
                     \cup {save_external_payout_id(payout_by_id(l.payout_id), l.obj)}
               /\ queue' = (queue \ {l.msg}) \cup
                     {[task |-> "complete_external_payout", payout_id |-> l.payout_id,
                       external_payout_id |-> l.obj.external_payout_id, retries |-> 0]}
               /\ Ended(TaskCall(l.msg, "returned", "initiated", "PROCESSING",
                                 payout_by_id(l.payout_id).status, FALSE))
               /\ pc' = [pc EXCEPT ![p] = "idle"]
               /\ local' = [local EXCEPT ![p] = NoLocal]
               /\ UNCHANGED payout_events
       ELSE /\ free(p)
            /\ \E m \in queue :
                /\ m.task = "initiate_external_payout"
                /\ IF \A r \in payouts : r.id # m.payout_id
                   THEN /\ Ended(TaskCall(m, "returned", "Payout not found", NULL, NULL, FALSE))
                        /\ queue' = queue \ {m}
                        /\ UNCHANGED <<pc, local, payouts, payout_events>>
                   ELSE LET payout == payout_by_id(m.payout_id)
                            ext == [prefix |-> "ext", key |-> payout.idempotency_key,
                                    uuid |-> uuid4]
                        IN IF payout.status # "PROCESSING"
                              \/ payout.external_payout_id # None_ext
                           THEN /\ Ended(TaskCall(m, "returned",
                                      IF payout.status = "COMPLETED" THEN "Already completed"
                                      ELSE IF payout.status # "PROCESSING" THEN "Invalid state"
                                      ELSE "already_initiated",
                                      payout.status, payout.status, FALSE))
                                /\ queue' = queue \ {m}
                                /\ UNCHANGED <<pc, local, payouts, payout_events>>
                           ELSE /\ payout_events' = create_payout_events(payout_events,
                                      payout.id,
                                      <<PayoutEventData("EXTERNAL_PAYOUT_INITIATED",
                                                        [external_payout_id |-> ext])>>)
                                /\ pc' = [pc EXCEPT ![p] = "ie_save"]
                                /\ local' = [local EXCEPT ![p] =
                                      [op |-> m.task, msg |-> m, payout_id |-> payout.id,
                                       obj |-> [payout EXCEPT !.external_payout_id = ext]]]
                                /\ UNCHANGED <<queue, last, payouts>>
    /\ UNCHANGED <<accounts, transactions, ledger_entries, events, account_balances,
                   payout_summaries, tx, ncalls>>

\* complete_external_payout (no DB transaction either), first statement group: the read
\* of the payout, the two checks, and PayoutEvent EXTERNAL_PAYOUT_COMPLETED.
complete_external_payout(p) ==
    /\ free(p)
    /\ \E m \in queue :
        /\ m.task = "complete_external_payout"
        /\ IF \A r \in payouts : r.id # m.payout_id
           THEN /\ Ended(TaskCall(m, "returned", "Payout not found", NULL, NULL, FALSE))
                /\ queue' = queue \ {m}
                /\ UNCHANGED <<pc, local, payout_events>>
           ELSE LET payout == payout_by_id(m.payout_id)
                IN IF payout.external_payout_id # m.external_payout_id
                      \/ payout.status = "COMPLETED"
                   THEN /\ Ended(TaskCall(m, "returned",
                              IF payout.external_payout_id # m.external_payout_id
                              THEN "External payout ID mismatch" ELSE "Already completed",
                              payout.status, payout.status, FALSE))
                        /\ queue' = queue \ {m}
                        /\ UNCHANGED <<pc, local, payout_events>>
                   ELSE /\ payout_events' = create_payout_events(payout_events, payout.id,
                              <<PayoutEventData("EXTERNAL_PAYOUT_COMPLETED",
                                    [external_payout_id |-> m.external_payout_id])>>)
                        /\ pc' = [pc EXCEPT ![p] = "ce_mark"]
                        /\ local' = [local EXCEPT ![p] =
                              [op |-> m.task, msg |-> m, payout_id |-> payout.id,
                               obj |-> payout]]
                        /\ UNCHANGED <<queue, last>>
    /\ UNCHANGED <<accounts, transactions, ledger_entries, events, account_balances,
                   payouts, payout_summaries, tx, ncalls>>

\* complete_external_payout: payout.mark_completed(...) and its UPDATE.
complete_mark_completed(p) ==
    /\ pc[p] = "ce_mark"
    /\ ~row_locked(p, local[p].payout_id)
    /\ LET l == local[p]
           obj == mark_completed(l.obj, l.msg.external_payout_id,
                                 [prefix |-> "ref", of |-> l.msg.external_payout_id])
       IN /\ payouts' = (payouts \ {payout_by_id(l.payout_id)})
                \cup {save_completed(payout_by_id(l.payout_id), obj)}
          /\ local' = [local EXCEPT ![p] = [l EXCEPT !.obj = obj]]
    /\ pc' = [pc EXCEPT ![p] = "ce_seq"]
    /\ UNCHANGED <<accounts, transactions, ledger_entries, events, account_balances,
                   payout_events, payout_summaries, queue, tx, last, ncalls>>

\* complete_external_payout: Event.create_event up to reading the next sequence number.
complete_next_sequence_number(p) ==
    /\ pc[p] = "ce_seq"
    /\ local' = [local EXCEPT ![p] =
          [op |-> local[p].op, msg |-> local[p].msg, payout_id |-> local[p].payout_id,
           obj |-> local[p].obj, sequence_number |-> get_next_sequence_number(events)]]
    /\ pc' = [pc EXCEPT ![p] = "ce_event"]
    /\ UNCHANGED <<accounts, transactions, ledger_entries, events, account_balances,
                   payouts, payout_events, payout_summaries, queue, tx, last, ncalls>>

\* complete_external_payout: the PAYOUT_COMPLETED event's INSERT; an IntegrityError
\* leaves the handler and the task retries.
complete_emit_event(p) ==
    /\ pc[p] = "ce_event"
    /\ LET l == local[p]
           ev == Event([prefix |-> "payout_completed", key |-> l.obj.idempotency_key,
                        uuid |-> uuid4],
                       "PAYOUT_COMPLETED", l.payout_id, "Payout",
                       [idempotency_key |-> l.obj.idempotency_key], l.sequence_number)
       IN IF event_insert_ok(events, ev)
          THEN /\ events' = events \cup {ev}
               /\ pc' = [pc EXCEPT ![p] = "ce_summary"]
               /\ UNCHANGED <<queue, last, local>>
          ELSE /\ Ended(TaskCall(l.msg, "IntegrityError", "sequence_number",
                                 l.obj.status, payout_by_id(l.payout_id).status,
                                 l.msg.retries < complete_external_payout_max_retries))
               /\ queue' = (queue \ {l.msg})
                           \cup retry(l.msg, complete_external_payout_max_retries)
               /\ pc' = [pc EXCEPT ![p] = "idle"]
               /\ local' = [local EXCEPT ![p] = NoLocal]
               /\ UNCHANGED events
    /\ UNCHANGED <<accounts, transactions, ledger_entries, account_balances, payouts,
                   payout_events, payout_summaries, tx, ncalls>>

\* complete_external_payout: PayoutSummary.objects.filter(payout=payout).update(...)
complete_update_summary(p) ==
    /\ pc[p] = "ce_summary"
    /\ payout_summaries' =
          {IF r.payout = local[p].payout_id THEN [r EXCEPT !.status = "COMPLETED"] ELSE r
             : r \in payout_summaries}
    /\ Ended(TaskCall(local[p].msg, "returned", "completed", "COMPLETED",
                      payout_by_id(local[p].payout_id).status, FALSE))
    /\ queue' = queue \ {local[p].msg}
    /\ pc' = [pc EXCEPT ![p] = "idle"]
    /\ local' = [local EXCEPT ![p] = NoLocal]
    /\ UNCHANGED <<accounts, transactions, ledger_entries, events, account_balances,
                   payouts, payout_events, tx, ncalls>>

\* ----------------------------------------------------- Event.create_event
\* The arguments a caller outside the engine passes to Event.create_event.
DirectEventIds == {[prefix |-> "event", key |-> k, uuid |-> 0] : k \in {"e1", "e2"}}

\* event_type and event_data of a call: two different pairs.
DirectEventArgs ==
    {[event_type |-> "LEDGER_TRANSACTION_CREATED", event_data |-> [test |-> "data1"]],
     [event_type |-> "ACCOUNT_BALANCE_UPDATED", event_data |-> [test |-> "data2"]]}

EventCall(outcome, created, event_type, ev) ==
    [op |-> "Event.create_event", outcome |-> outcome, created |-> created,
     event_id |-> ev.event_id, event_type |-> event_type, returned |-> ev]

\* Variant: Event.create_event without the exists check on event_id.
Event_create_event_unchecked(p) ==
    /\ free(p)
    /\ ncalls < MaxCalls
    /\ \E event_id \in DirectEventIds, args \in DirectEventArgs :
        /\ pc' = [pc EXCEPT ![p] = "ev_insert"]
        /\ local' = [local EXCEPT ![p] =
              [op |-> "Event.create_event",
               sequence_number |-> get_next_sequence_number(events),
               event |-> Event(event_id, args.event_type, 0, "Direct", args.event_data,
                               get_next_sequence_number(events))]]
        /\ UNCHANGED last
    /\ ncalls' = ncalls + 1
    /\ UNCHANGED <<accounts, transactions, ledger_entries, events, account_balances,
                   payouts, payout_events, payout_summaries, queue, tx>>

\* Event.create_event called on its own: the exists check on event_id, which returns
\* the stored event, or else the read of the next sequence number.
Event_create_event(p) ==
    /\ free(p)
    /\ ncalls < MaxCalls
    /\ \E event_id \in DirectEventIds, args \in DirectEventArgs :
        IF \E e \in events : e.event_id = event_id
        THEN /\ Ended(EventCall("ok", FALSE, args.event_type,
                                  CHOOSE e \in events : e.event_id = event_id))
             /\ UNCHANGED <<pc, local>>
        ELSE /\ pc' = [pc EXCEPT ![p] = "ev_insert"]
             /\ local' = [local EXCEPT ![p] =
                   [op |-> "Event.create_event",
                    sequence_number |-> get_next_sequence_number(events),
                    event |-> Event(event_id, args.event_type, 0, "Direct", args.event_data,
                                    get_next_sequence_number(events))]]
             /\ UNCHANGED last
    /\ ncalls' = ncalls + 1
    /\ UNCHANGED <<accounts, transactions, ledger_entries, events, account_balances,
                   payouts, payout_events, payout_summaries, queue, tx>>

\* Event.create_event called on its own: the INSERT and the commit.
Event_objects_create(p) ==
    /\ pc[p] = "ev_insert"
    /\ LET ev == local[p].event
       IN IF event_insert_ok(events, ev)
          THEN /\ events' = events \cup {ev}
               /\ Ended(EventCall("ok", TRUE, ev.event_type, ev))
          ELSE /\ Ended(EventCall(IF \E e \in events : e.event_id = ev.event_id
                                  THEN "IntegrityError(event_id)"
                                  ELSE "IntegrityError(sequence_number)",
                                  FALSE, ev.event_type, ev))
               /\ UNCHANGED events
    /\ pc' = [pc EXCEPT ![p] = "idle"]
    /\ local' = [local EXCEPT ![p] = NoLocal]
    /\ UNCHANGED <<accounts, transactions, ledger_entries, account_balances, payouts,
                   payout_events, payout_summaries, queue, tx, ncalls>>

\* ------------------------------------------------------------ task failure
max_retries(task) ==
    CASE task = "process_payout_task" -> process_payout_task_max_retries
      [] task = "initiate_external_payout" -> initiate_external_payout_max_retries
      [] OTHER -> complete_external_payout_max_retries

\* A delivered task raises before it has written anything (the database cannot be
\* reached at Payout.objects.get): `except Exception as exc: raise self.retry(exc=exc)`.
task_raises(p) ==
    /\ free(p)
    /\ \E m \in queue :
        /\ LET status == IF \E r \in payouts : r.id = m.payout_id
                         THEN payout_by_id(m.payout_id).status ELSE NULL
           IN Ended(TaskCall(m, "OperationalError", "retry", status, status,
                             m.retries < max_retries(m.task)))
        /\ queue' = (queue \ {m}) \cup retry(m, max_retries(m.task))
    /\ UNCHANGED <<accounts, transactions, ledger_entries, events, account_balances,
                   payouts, payout_events, payout_summaries, pc, local, tx, ncalls>>

Next ==
    \/ init_accounts
    \/ \E p \in Procs : Transaction_create_transaction(p)
    \/ \E p \in Procs : LedgerService_create_transaction(p)
    \/ \E p \in Procs : LedgerService_next_sequence_number(p)
    \/ \E p \in Procs : LedgerService_emit_event(p)
    \/ \E p \in Procs : initiate_payout(p)
    \/ \E p \in Procs : create_payout(p)
    \/ \E p \in Procs : get_or_create_pending_insert(p)
    \/ \E p \in Procs : initiate_payout_commit(p)
    \/ task_delay
    \/ \E p \in Procs : process_payout_task(p)
    \/ \E p \in Procs : mark_processing(p)
    \/ \E p \in Procs : process_payout(p)
    \/ \E p \in Procs : initiate_external_payout(p)
    \/ \E p \in Procs : complete_external_payout(p)
    \/ \E p \in Procs : complete_mark_completed(p)
    \/ \E p \in Procs : complete_next_sequence_number(p)
    \/ \E p \in Procs : complete_emit_event(p)
    \/ \E p \in Procs : complete_update_summary(p)

Spec == Init /\ [][Next]_vars

\* The steps the engine takes by itself: a request thread runs its handler to the end,
\* and a Celery worker takes a published message and runs its task to the end.  Calls
\* from outside (requests, direct calls, webhooks, init_accounts) may or may not come.
Fairness ==
    \A p \in Procs :
        /\ WF_vars(LedgerService_next_sequence_number(p))
        /\ WF_vars(LedgerService_emit_event(p))
        /\ WF_vars(get_or_create_pending_insert(p))
        /\ WF_vars(initiate_payout_commit(p))
        /\ WF_vars(process_payout_task(p))
        /\ WF_vars(mark_processing(p))
        /\ WF_vars(process_payout(p))
        /\ WF_vars(initiate_external_payout(p))
        /\ WF_vars(complete_external_payout(p))
        /\ WF_vars(complete_mark_completed(p))
        /\ WF_vars(complete_next_sequence_number(p))
        /\ WF_vars(complete_emit_event(p))
        /\ WF_vars(complete_update_summary(p))

LiveSpec == Init /\ [][Next]_vars /\ Fairness

\* The event log used by callers of Event.create_event, next to the ledger service and
\* the admission of payouts, which append their events through it.
EventNext ==
    \/ \E p \in Procs : Event_create_event(p)
    \/ \E p \in Procs : Event_objects_create(p)
    \/ \E p \in Procs : initiate_payout(p)
    \/ \E p \in Procs : get_or_create_pending_insert(p)
    \/ \E p \in Procs : initiate_payout_commit(p)

EventSpec == Init /\ [][EventNext]_vars

\* The request path and process_payout_task, with published tasks of all three kinds
\* that may raise when they are delivered.
RetryNext ==
    \/ init_accounts
    \/ \E p \in Procs : create_payout(p)
    \/ \E p \in Procs : get_or_create_pending_insert(p)
    \/ \E p \in Procs : initiate_payout_commit(p)
    \/ task_delay
    \/ \E p \in Procs : process_payout_task(p)
    \/ \E p \in Procs : mark_processing(p)
    \/ \E p \in Procs : process_payout(p)
    \/ \E p \in Procs : task_raises(p)

RetrySpec == Init /\ [][RetryNext]_vars

\* The read model on its own: a ledger_entries table of up to MaxEntries rows on accounts
\* of the five types, amounts the CHECK admits, under one Transaction; no balances yet.
RebuildEntries ==
    [transaction : {1}, account : OperationalAccounts \cup OtherAccounts,
     amount : {a \in 0..MaxAmount : ledger_entry_amount_non_negative(a)},
     entry_type : {"DEBIT", "CREDIT"}]

RebuildTables ==
    UNION {{{[transaction |-> f[i].transaction, idx |-> i, account |-> f[i].account,
              amount |-> f[i].amount, entry_type |-> f[i].entry_type] : i \in 1..n}
              : f \in [1..n -> RebuildEntries]} : n \in 0..MaxEntries}

RebuildInit ==
    /\ accounts = OperationalAccounts \cup OtherAccounts
    /\ transactions = {[id |-> 1, transaction_id |-> "t1", status |-> "COMPLETED"]}
    /\ ledger_entries \in RebuildTables
    /\ events = {}
    /\ account_balances = {}
    /\ payouts = {}
    /\ payout_events = {}
    /\ payout_summaries = {}
    /\ queue = {}
    /\ pc = [p \in Procs |-> "idle"]
    /\ local = [p \in Procs |-> NoLocal]
    /\ tx = [p \in Procs |-> EmptyTx]
    /\ last = [op |-> "none", tick |-> 0]
    /\ ncalls = 0

\* AccountBalance.rebuild_for_account(account) called on its own: the fold over the
\* account's entries, then update_or_create of the account's row.
AccountBalance_rebuild_for_account(p) ==
    /\ free(p)
    /\ ncalls < MaxCalls
    /\ \E code \in accounts :
         LET balance == rebuild_balance(code, ledger_entries)
             bals == update_or_create_balance(account_balances, code, balance)
             account_balance == CHOOSE b \in bals : b.account = code
         IN /\ account_balances' = bals
            /\ Ended([op |-> "AccountBalance.rebuild_for_account", outcome |-> "ok",
                      account |-> code, balance |-> account_balance.balance,
                      created |-> balance_rows(code) = {},
                      repeated |-> /\ last.op = "AccountBalance.rebuild_for_account"
                                   /\ last.account = code])
    /\ ncalls' = ncalls + 1
    /\ UNCHANGED <<accounts, transactions, ledger_entries, events, payouts, payout_events,
                   payout_summaries, queue, pc, local, tx>>

\* AccountBalance.objects.filter(account=account).delete()
AccountBalance_delete ==
    /\ \E code \in accounts :
         /\ balance_rows(code) # {}
         /\ account_balances' = account_balances \ balance_rows(code)
    /\ UNCHANGED <<accounts, transactions, ledger_entries, events, payouts, payout_events,
                   payout_summaries, queue, pc, local, tx, last, ncalls>>

RebuildNext ==
    \/ \E p \in Procs : AccountBalance_rebuild_for_account(p)
    \/ AccountBalance_delete

RebuildSpec == RebuildInit /\ [][RebuildNext]_vars

\* Model.save() as Django defines it, on an instance whose primary key is stored:
\* the row is overwritten with the instance's fields.
models_Model_save(rows, stored, instance) == (rows \ {stored}) \cup {instance}

\* LedgerEntry.save / Event.save on an instance loaded from the row `stored` and changed:
\* the rows afterwards.  The override raises when a row with the instance's pk exists.
immutable_save(rows, stored, instance) ==
    IF stored \in rows THEN rows ELSE models_Model_save(rows, stored, instance)

\* LedgerEntry.save() on a stored entry after entry.amount was changed.
LedgerEntry_save(p) ==
    /\ free(p)
    /\ ncalls < MaxCalls
    /\ \E entry \in ledger_entries :
         LET rows == immutable_save(ledger_entries, entry,
                                    [entry EXCEPT !.amount = entry.amount + 1])
         IN /\ ledger_entries' = rows
            /\ Ended([op |-> "LedgerEntry.save",
                      outcome |-> IF entry \in ledger_entries THEN "ValueError" ELSE "ok"])
    /\ ncalls' = ncalls + 1
    /\ UNCHANGED <<accounts, transactions, events, account_balances, payouts,
                   payout_events, payout_summaries, queue, pc, local, tx>>

\* LedgerEntry.delete() on a stored entry: raises.
LedgerEntry_delete(p) ==
    /\ free(p)
    /\ ncalls < MaxCalls
    /\ ledger_entries # {}
    /\ Ended([op |-> "LedgerEntry.delete", outcome |-> "ValueError"])
    /\ ncalls' = ncalls + 1
    /\ UNCHANGED <<accounts, transactions, ledger_entries, events, account_balances,
                   payouts, payout_events, payout_summaries, queue, pc, local, tx>>

\* Event.save() on a stored event after event.event_data was changed.
Event_save(p) ==
    /\ free(p)
    /\ ncalls < MaxCalls
    /\ \E event \in events :
         LET rows == immutable_save(events, event,
                                    [event EXCEPT !.event_type = "ACCOUNT_BALANCE_UPDATED",
                                                  !.event_data = [test |-> "data2"]])
         IN /\ events' = rows
            /\ Ended([op |-> "Event.save",
                      outcome |-> IF event \in events THEN "ValueError" ELSE "ok"])
    /\ ncalls' = ncalls + 1
    /\ UNCHANGED <<accounts, transactions, ledger_entries, account_balances, payouts,
                   payout_events, payout_summaries, queue, pc, local, tx>>

\* Event.delete() on a stored event: raises.
Event_delete(p) ==
    /\ free(p)
    /\ ncalls < MaxCalls
    /\ events # {}
    /\ Ended([op |-> "Event.delete", outcome |-> "ValueError"])
    /\ ncalls' = ncalls + 1
    /\ UNCHANGED <<accounts, transactions, ledger_entries, events, account_balances,
                   payouts, payout_events, payout_summaries, queue, pc, local, tx>>

\* The append-only tables: ledger postings and direct event appends that fill them, and
\* save() and delete() on their stored rows.
AppendOnlyNext ==
    \/ init_accounts
    \/ \E p \in Procs : LedgerService_create_transaction(p)
    \/ \E p \in Procs : LedgerService_next_sequence_number(p)
    \/ \E p \in Procs : LedgerService_emit_event(p)
    \/ \E p \in Procs : Event_create_event(p)
    \/ \E p \in Procs : Event_objects_create(p)
    \/ \E p \in Procs : LedgerEntry_save(p)
    \/ \E p \in Procs : LedgerEntry_delete(p)
    \/ \E p \in Procs : Event_save(p)
    \/ \E p \in Procs : Event_delete(p)

AppendOnlySpec == Init /\ [][AppendOnlyNext]_vars

\* The ledger on its own: postings that all go through LedgerService.create_transaction.
LedgerNext ==
    \/ init_accounts
    \/ \E p \in Procs : LedgerService_create_transaction(p)
    \/ \E p \in Procs : LedgerService_next_sequence_number(p)
    \/ \E p \in Procs : LedgerService_emit_event(p)

LedgerSpec == Init /\ [][LedgerNext]_vars

\* ------------------------------------------------------------ the admin site
\* Payout.STATUS_CHOICES
STATUS_CHOICES == {"PENDING", "PROCESSING", "COMPLETED", "FAILED", "CANCELLED"}

AdminCall(payout_id, status_before, status_after) ==
    [op |-> "PayoutAdmin.change_view", outcome |-> "ok", payout_id |-> payout_id,
     status_before |-> status_before, status_after |-> status_after]

\* PayoutAdmin's change form: status and ledger_transaction_id are among its editable
\* fields, and the form saves the row with the values the operator entered (a status
\* among the choices, any text or nothing as ledger_transaction_id).  Nothing else is
\* written: no PayoutEvent, no Event, no PayoutSummary.
PayoutAdmin_change_view ==
    /\ ncalls < MaxCalls
    /\ \E payout \in payouts, status \in STATUS_CHOICES,
          ledger_transaction_id \in {NULL} \cup TxnIds :
        /\ <<status, ledger_transaction_id>>
              # <<payout.status, payout.ledger_transaction_id>>
        /\ ~row_locked(0, payout.id)
        /\ payouts' = (payouts \ {payout})
              \cup {[payout EXCEPT !.status = status,
                                   !.ledger_transaction_id = ledger_transaction_id]}
        /\ Ended(AdminCall(payout.id, payout.status, status))
    /\ ncalls' = ncalls + 1
    /\ UNCHANGED <<accounts, transactions, ledger_entries, events, account_balances,
                   payout_events, payout_summaries, queue, pc, local, tx>>

\* Payouts admitted through the service, moved by the operator through the admin site,
\* and the two external tasks, published from outside or by one another.
AdminNext ==
    \/ \E p \in Procs : initiate_payout(p)
    \/ \E p \in Procs : get_or_create_pending_insert(p)
    \/ \E p \in Procs : initiate_payout_commit(p)
    \/ PayoutAdmin_change_view
    \/ task_delay
    \/ \E p \in Procs : initiate_external_payout(p)
    \/ \E p \in Procs : complete_external_payout(p)
    \/ \E p \in Procs : complete_mark_completed(p)
    \/ \E p \in Procs : complete_next_sequence_number(p)
    \/ \E p \in Procs : complete_emit_event(p)
    \/ \E p \in Procs : complete_update_summary(p)

AdminSpec == Init /\ [][AdminNext]_vars

\* ---------------------------------------------------- processing on its own
\* As Init, with any of the operational accounts created so far (the tests and the
\* admin site create accounts one at a time).
ProcessInit ==
    /\ accounts \in SUBSET OperationalAccounts
    /\ transactions = {}
    /\ ledger_entries = {}
    /\ events = {}
    /\ account_balances = {}
    /\ payouts = {}
    /\ payout_events = {}
    /\ payout_summaries = {}
    /\ queue = {}
    /\ pc = [p \in Procs |-> "idle"]
    /\ local = [p \in Procs |-> NoLocal]
    /\ tx = [p \in Procs |-> EmptyTx]
    /\ last = [op |-> "none", tick |-> 0]
    /\ ncalls = 0

\* The request path and process_payout_task, each request publishing the task again.
ProcessNext ==
    \/ init_accounts
    \/ \E p \in Procs : create_payout(p)
    \/ \E p \in Procs : get_or_create_pending_insert(p)
    \/ \E p \in Procs : initiate_payout_commit(p)
    \/ \E p \in Procs : process_payout_task(p)
    \/ \E p \in Procs : mark_processing(p)
    \/ \E p \in Procs : process_payout(p)

ProcessSpec == ProcessInit /\ [][ProcessNext]_vars

\* ================================================================ properties
RECURSIVE SignedSum(_)
SignedSum(rows) ==
    IF rows = {} THEN 0
    ELSE LET r == CHOOSE x \in rows : TRUE IN r.amount + SignedSum(rows \ {r})

LedgerOps == {"Transaction.create_transaction", "LedgerService.create_transaction"}

\* A call of op has just ended (its record is written to last in this step).
CallEnds(ops) == last' # last /\ last'.op \in ops

\* C1: every committed Transaction's ledger entries have signed amounts that sum to
\* zero, whatever posting calls (successful or failing) came before.
C1_ZeroSum ==
    \A t \in transactions : SignedSum(entries_of(ledger_entries, t.id)) = 0

\* C1 witness: a Transaction with entries is committed and the last posting call failed.
C1_Witness ==
    /\ \E t \in transactions : Cardinality(entries_of(ledger_entries, t.id)) > 0
    /\ last.op \in LedgerOps
    /\ last.outcome # "ok"

\* C2: every committed Transaction has exactly two LedgerEntries, and a posting call
\* whose entries list is not of length 2 raises ValueError and inserts no Transaction
\* and no LedgerEntry, committed or pending.
C2_TwoEntries ==
    /\ [](\A t \in transactions : Cardinality(entries_of(ledger_entries, t.id)) = 2)
    /\ [][(CallEnds(LedgerOps) /\ last'.n_entries # 2)
            => /\ last'.outcome = "ValueError"
               /\ UNCHANGED <<transactions, ledger_entries, tx>>]_vars

\* C2 witness: a two-entry Transaction is committed and the last posting call, given a
\* list of another length, was refused.
C2_Witness ==
    /\ \E t \in transactions : Cardinality(entries_of(ledger_entries, t.id)) = 2
    /\ last.op \in LedgerOps
    /\ last.n_entries # 2
    /\ last.outcome = "ValueError"

\* A payout for key k is admitted with a positive amount, both operational accounts
\* exist and its process_payout_task message is published.
Admitted(k) ==
    /\ OperationalAccounts \subseteq accounts
    /\ \E r \in payouts :
        /\ r.idempotency_key = k
        /\ r.status = "PENDING"
        /\ r.amount > 0
        /\ ProcessMessage(r.id) \in queue

\* C3: happy path: once a payout with a fresh key and a positive amount is admitted
\* and both operational accounts exist, the worker handlers, run fairly, eventually
\* bring it to COMPLETED with ledger_transaction_id = "payout_" + idempotency_key.
C3_HappyPath ==
    \A k \in Keys :
        Admitted(k) ~> (\E r \in payouts :
                          /\ r.idempotency_key = k
                          /\ r.status = "COMPLETED"
                          /\ r.ledger_transaction_id = payout_transaction_id(k))

\* C3 witness: the admitted payout was processed while both accounts existed and ended
\* FAILED on the ledger posting's ValueError.
C3_Witness ==
    /\ OperationalAccounts \subseteq accounts
    /\ \E r \in payouts : r.status = "FAILED" /\ r.error_message = "ValueError"

\* The committed Transactions posted under the ledger id of the payout with key k.
payout_transactions(txns, k) ==
    {t \in txns : t.transaction_id = payout_transaction_id(k)}

\* Process p ends process_payout in this step, having got through mark_processing and
\* the PAYOUT_PROCESSING event, on a payout of positive amount with both accounts
\* present and no Transaction under the payout's ledger id.
ProcessesPending(p) ==
    /\ pc[p] = "pp_event"
    /\ pc'[p] = "idle"
    /\ last'.outcome = "returned"
    /\ OperationalAccounts \subseteq accounts
    /\ payout_by_id(local[p].payout_id).amount > 0
    /\ payout_transactions(transactions,
                           payout_by_id(local[p].payout_id).idempotency_key) = {}

\* C4: process_payout on a PENDING payout of positive amount, both operational accounts
\* existing, returns it PROCESSING (not FAILED) with the balanced Transaction
\* "payout_" + idempotency_key posted (a DEBIT on the liability account, a CREDIT on the
\* cash account), ledger_transaction_id set to that id and a LEDGER_ENTRY_CREATED
\* PayoutEvent recorded.
C4_ProcessPosts ==
    [][\A p \in Procs : ProcessesPending(p) =>
          \E r \in payouts' :
            /\ r.id = local[p].payout_id
            /\ r.status = "PROCESSING"
            /\ r.ledger_transaction_id = payout_transaction_id(r.idempotency_key)
            /\ \E t \in payout_transactions(transactions', r.idempotency_key) :
                 LET es == entries_of(ledger_entries', t.id)
                 IN /\ SignedSum(es) = 0
                    /\ {[account |-> e.account, entry_type |-> e.entry_type] : e \in es}
                         = {[account |-> PAYOUT_LIABILITY_ACCOUNT_CODE, entry_type |-> "DEBIT"],
                            [account |-> CASH_ACCOUNT_CODE, entry_type |-> "CREDIT"]}
            /\ \E e \in payout_events' :
                 e.payout = r.id /\ e.event_type = "LEDGER_ENTRY_CREATED"]_vars

\* C4 witness: process_payout returned a payout it found PENDING, with both accounts
\* present and no earlier Transaction under its ledger id, as FAILED.
C4_Witness ==
    /\ last.op = "process_payout_task"
    /\ last.returned = "processed"
    /\ last.status_before = "PENDING"
    /\ last.accounts_found
    /\ ~last.ledger_existed
    /\ last.status_after = "FAILED"

\* C5: every COMPLETED payout has exactly one Transaction "payout_" + idempotency_key,
\* however often the worker handlers ran for it; and a process_payout_task run for a
\* payout that was already processed leaves the number of those Transactions as it is.
C5_OneLedgerTransaction ==
    /\ [](\A r \in payouts : r.status = "COMPLETED" =>
             Cardinality(payout_transactions(transactions, r.idempotency_key)) = 1)
    /\ [][(CallEnds({"process_payout_task"}) /\ last'.status_before \notin {NULL, "PENDING"})
            => \A k \in Keys : Cardinality(payout_transactions(transactions', k))
                                = Cardinality(payout_transactions(transactions, k))]_vars

\* C5 witness: a payout is COMPLETED and no Transaction carries its ledger id.
C5_Witness ==
    \E r \in payouts :
        /\ r.status = "COMPLETED"
        /\ payout_transactions(transactions, r.idempotency_key) = {}

AdmissionOps == {"initiate_payout", "create_payout"}

payouts_of(k) == {r \in payouts : r.idempotency_key = k}

\* One of everything admission stores for each payout of key k.
AdmittedOnce(k) ==
    \A r \in payouts_of(k) :
        /\ Cardinality({e \in payout_events :
                           e.payout = r.id /\ e.event_type = "CREATED"}) = 1
        /\ Cardinality({e \in events :
                           e.aggregate_id = r.id /\ e.event_type = "PAYOUT_CREATED"}) = 1
        /\ Cardinality({x \in payout_summaries : x.payout = r.id}) = 1

\* A direct initiate_payout call for key k begins in this step.
InitiateBegins(k) ==
    /\ ncalls' = ncalls + 1
    /\ \/ CallEnds({"initiate_payout"}) /\ last'.idempotency_key = k
       \/ \E p \in Procs : /\ pc[p] = "idle"
                            /\ pc'[p] = "ip_insert"
                            /\ local'[p].op = "initiate_payout"
                            /\ local'[p].idempotency_key = k

\* C6: sequential idempotent admission: a key has at most one Payout row, with exactly
\* one CREATED PayoutEvent, one PAYOUT_CREATED Event and one PayoutSummary; an
\* initiate_payout call made when the key's payout is already stored returns that
\* payout's id (created = false) and changes no stored state.
C6_SequentialAdmission ==
    /\ [](\A k \in Keys : Cardinality(payouts_of(k)) <= 1 /\ AdmittedOnce(k))
    /\ [][\A k \in Keys : (payouts_of(k) # {} /\ InitiateBegins(k)) =>
              /\ CallEnds({"initiate_payout"})
              /\ last'.outcome = "ok"
              /\ ~last'.created
              /\ \A r \in payouts_of(k) : last'.payout_id = r.id
              /\ UNCHANGED <<tables, tx>>]_vars

\* C6 witness: a later initiate_payout call for an admitted key has returned the
\* existing payout.
C6_Witness ==
    /\ last.op = "initiate_payout"
    /\ last.outcome = "ok"
    /\ ~last.created
    /\ \E r \in payouts_of(last.idempotency_key) : r.id = last.payout_id

\* C7: concurrent admission: in every interleaving a key has at most one committed
\* Payout row and as many PAYOUT_CREATED Events as rows, and once a call for the key
\* has created the payout, found it or lost the insert race to it, exactly one of each.
C7_ConcurrentUnique ==
    /\ \A k \in Keys :
          /\ Cardinality(payouts_of(k)) <= 1
          /\ Cardinality({e \in events : /\ e.event_type = "PAYOUT_CREATED"
                                          /\ e.event_data.idempotency_key = k})
               = Cardinality(payouts_of(k))
    /\ (last.op \in AdmissionOps
        /\ last.outcome \in {"ok", "IntegrityError(idempotency_key)"})
       => Cardinality(payouts_of(last.idempotency_key)) = 1

\* C7 witness: two calls raced for the same key (one lost the INSERT to the other) and
\* one Payout row is committed.
C7_Witness ==
    /\ last.op \in AdmissionOps
    /\ last.outcome = "IntegrityError(idempotency_key)"
    /\ Cardinality(payouts_of(last.idempotency_key)) = 1

\* C8: concurrent admission returns to every caller: no initiate_payout call ends with
\* the unique violation on idempotency_key (the loser of the insert race re-reads), and
\* every call that returns a payout returns the id of the key's one payout.
C8_EveryCallerReturns ==
    last.op \in AdmissionOps =>
        /\ last.outcome # "IntegrityError(idempotency_key)"
        /\ last.outcome = "ok" =>
              \A r \in payouts_of(last.idempotency_key) : r.id = last.payout_id

\* C8 witness: a call lost the insert race and ended with the unique violation.
C8_Witness ==
    /\ last.op = "initiate_payout"
    /\ last.outcome = "IntegrityError(idempotency_key)"

\* C9: re-delivery of processing is a no-op: a process_payout_task run that finds the
\* payout already PROCESSING or terminal raises no error, schedules no retry and changes
\* no stored state.
C9_RedeliveryNoOp ==
    [][(CallEnds({"process_payout_task"})
        /\ last'.status_before \in {"PROCESSING", "COMPLETED", "FAILED"})
       => /\ last'.outcome = "returned"
          /\ ~last'.retry_scheduled
          /\ UNCHANGED tables]_vars

\* C9 witness: process_payout met a payout already FAILED, raised ValueError, and the
\* task scheduled a retry.
C9_Witness ==
    /\ last.op = "process_payout_task"
    /\ last.status_before = "FAILED"
    /\ last.outcome = "ValueError"
    /\ last.retry_scheduled

\* C10: when process_payout posts "payout_" + idempotency_key and a Transaction with
\* that id already exists, the payout is not marked FAILED: ledger_transaction_id is
\* set to that id and initiate_external_payout is enqueued.
C10_CollisionAlreadyPosted ==
    [][\A p \in Procs :
          (/\ pc[p] = "pp_event"
           /\ pc'[p] = "idle"
           /\ last'.outcome = "returned"
           /\ OperationalAccounts \subseteq accounts
           /\ payout_transactions(transactions,
                  payout_by_id(local[p].payout_id).idempotency_key) # {})
          => \E r \in payouts' :
                /\ r.id = local[p].payout_id
                /\ r.status # "FAILED"
                /\ r.ledger_transaction_id = payout_transaction_id(r.idempotency_key)
                /\ \E m \in queue' : /\ m.task = "initiate_external_payout"
                                      /\ m.payout_id = r.id]_vars

\* C10 witness: process_payout ran with both accounts present and a Transaction already
\* stored under the payout's ledger id, and returned the payout FAILED.
C10_Witness ==
    /\ last.op = "process_payout_task"
    /\ last.returned = "processed"
    /\ last.accounts_found
    /\ last.ledger_existed
    /\ last.status_after = "FAILED"

\* complete_external_payout is under way for the payout, or a delivery of it is due.
Completing(payout_id) ==
    \/ \E p \in Procs : /\ pc[p] \in {"ce_mark", "ce_seq", "ce_event", "ce_summary"}
                         /\ local[p].payout_id = payout_id
    \/ \E m \in queue : m.task = "complete_external_payout" /\ m.payout_id = payout_id

payout_completed_events(payout_id) ==
    {e \in events : e.event_type = "PAYOUT_COMPLETED" /\ e.aggregate_id = payout_id}

external_payout_completed_events(payout_id) ==
    {e \in payout_events :
        e.event_type = "EXTERNAL_PAYOUT_COMPLETED" /\ e.payout = payout_id}

\* C11: however often complete_external_payout is delivered with the matching external
\* id, once the deliveries are done a COMPLETED payout has exactly one PAYOUT_COMPLETED
\* Event and exactly one EXTERNAL_PAYOUT_COMPLETED PayoutEvent.
C11_CompletedOnce ==
    \A r \in payouts :
        (r.status = "COMPLETED" /\ ~Completing(r.id)) =>
            /\ Cardinality(payout_completed_events(r.id)) = 1
            /\ Cardinality(external_payout_completed_events(r.id)) = 1

\* C11 witness: two deliveries ran side by side and each recorded the completion.
C11_Witness ==
    \E r \in payouts :
        /\ r.status = "COMPLETED"
        /\ ~Completing(r.id)
        /\ Cardinality(payout_completed_events(r.id)) = 2
        /\ Cardinality(external_payout_completed_events(r.id)) = 2

\* C12: completion is atomic with its event and read model: in every committed state a
\* COMPLETED payout has a PAYOUT_COMPLETED Event and a PayoutSummary of status
\* COMPLETED.
C12_CompletionAtomic ==
    \A r \in payouts :
        r.status = "COMPLETED" =>
            /\ payout_completed_events(r.id) # {}
            /\ \E x \in payout_summaries : x.payout = r.id /\ x.status = "COMPLETED"

\* C12 witness: the deliveries are over and the payout stays COMPLETED with no
\* PAYOUT_COMPLETED Event and a PayoutSummary that is not COMPLETED.
C12_Witness ==
    \E r \in payouts :
        /\ r.status = "COMPLETED"
        /\ ~Completing(r.id)
        /\ payout_completed_events(r.id) = {}
        /\ \E x \in payout_summaries : x.payout = r.id /\ x.status # "COMPLETED"

\* The edges of the payout state machine.
StatusEdges ==
    {<<"PENDING", "PROCESSING">>, <<"PROCESSING", "COMPLETED">>,
     <<"PENDING", "FAILED">>, <<"PROCESSING", "FAILED">>, <<"PENDING", "CANCELLED">>}

\* C13: a payout's stored status changes only along the edges of the state machine;
\* so no handler changes the status of a COMPLETED, FAILED or CANCELLED payout, and
\* COMPLETED is entered only from PROCESSING.
C13_StatusEdges ==
    [][\A r \in payouts : \A r2 \in payouts' :
          (r2.id = r.id /\ r2.status # r.status)
             => <<r.status, r2.status>> \in StatusEdges]_vars

\* C13 witness: a payout that was FAILED (its retry_count is counted) is COMPLETED.
C13_Witness ==
    \E r \in payouts : r.status = "COMPLETED" /\ r.retry_count > 0

\* C14: a FAILED payout carries an error_message and a retry_count raised by one, and
\* the transaction that made it FAILED also recorded a FAILED PayoutEvent and a
\* PAYOUT_FAILED Event for it.
C14_FailureRecorded ==
    \A r \in payouts :
        r.status = "FAILED" =>
            /\ r.error_message # NULL
            /\ r.retry_count = 1
            /\ \E e \in payout_events : e.payout = r.id /\ e.event_type = "FAILED"
            /\ \E e \in events : e.aggregate_id = r.id /\ e.event_type = "PAYOUT_FAILED"

\* C14 witness: a payout is FAILED with its error_message and retry_count set, and
\* neither a FAILED PayoutEvent nor a PAYOUT_FAILED Event exists.
C14_Witness ==
    \E r \in payouts :
        /\ r.status = "FAILED"
        /\ r.error_message # NULL
        /\ r.retry_count = 1
        /\ \A e \in payout_events : e.payout = r.id => e.event_type # "FAILED"
        /\ \A e \in events : e.event_type # "PAYOUT_FAILED"

TaskOps == {"process_payout_task", "initiate_external_payout", "complete_external_payout"}

\* The task run that ended last raised and no retry is left for it.
RetriesExhausted ==
    /\ last.op \in TaskOps
    /\ last.outcome # "returned"
    /\ ~last.retry_scheduled

\* C15: when a handler has failed until its retry cap is used up (3, 5 and 3 retries),
\* the payout it was run for is FAILED, not left PENDING or PROCESSING.
C15_ExhaustedRetriesFail ==
    (RetriesExhausted /\ last.status_after # NULL) => last.status_after = "FAILED"

\* C15 witness: process_payout_task raised on its first run and on its 3 retries, and
\* the payout is still PENDING.
C15_Witness ==
    /\ RetriesExhausted
    /\ last.op = "process_payout_task"
    /\ last.status_after = "PENDING"
    /\ \A m \in queue : m.task # "process_payout_task"

\* An Event.create_event call begins in this step.
CreateEventBegins ==
    /\ ncalls' = ncalls + 1
    /\ \/ CallEnds({"Event.create_event"})
       \/ \E p \in Procs : pc[p] = "idle" /\ pc'[p] = "ev_insert"

\* The event_id the call beginning in this step was given.
begun_event_id ==
    IF CallEnds({"Event.create_event"}) THEN last'.event_id
    ELSE local'[CHOOSE p \in Procs : pc[p] = "idle" /\ pc'[p] = "ev_insert"].event
         .event_id

\* C16: Event.create_event is idempotent on event_id: a call with an event_id that is
\* already stored inserts no row, takes no sequence number, leaves the stored event as
\* it is and returns it (whatever event_type and event_data the call was given).
C16_CreateEventIdempotent ==
    [][(CreateEventBegins /\ \E e \in events : e.event_id = begun_event_id)
       => /\ CallEnds({"Event.create_event"})
          /\ last'.outcome = "ok"
          /\ ~last'.created
          /\ last'.returned \in events
          /\ last'.returned.event_id = begun_event_id
          /\ UNCHANGED <<tables, tx>>]_vars

\* C16 witness: a second call with a stored event_id and another event_type returned
\* the stored event, whose event_type and event_data are the first call's.
C16_Witness ==
    /\ last.op = "Event.create_event"
    /\ last.outcome = "ok"
    /\ ~last.created
    /\ last.returned \in events
    /\ last.returned.event_type # last.event_type
    /\ Cardinality({e \in events : e.event_id = last.event_id}) = 1

\* C17: committed events are numbered in commit order: an event committed in a step has
\* a sequence_number above that of every event committed before, also when the calls
\* ran in concurrent transactions or earlier transactions rolled back; committed
\* sequence numbers are pairwise distinct and positive.
C17_MonotonicSequence ==
    /\ [](\A e \in events :
             /\ e.sequence_number > 0
             /\ \A f \in events : f # e => f.sequence_number # e.sequence_number)
    /\ [][\A e \in events' \ events :
             \A f \in events : f.sequence_number < e.sequence_number]_vars

\* C17 witness: a transaction that had read a sequence number lost it to a concurrent
\* one and rolled back, and events were committed before and after.
C17_Witness ==
    /\ Cardinality(events) >= 2
    /\ last.op \in AdmissionOps
    /\ last.outcome = "IntegrityError(sequence_number)"

\* The processes that have read their next sequence number and not yet inserted.
SequenceHolders == {p \in Procs : pc[p] \in {"ev_insert", "ip_event"}}

\* C18: two transactions that call Event.create_event concurrently with distinct
\* event_ids never hold the same sequence_number, and no append, nor the business
\* transaction around it, fails on the unique sequence_number.
C18_NoSequenceCollision ==
    /\ \A p \in SequenceHolders : \A q \in SequenceHolders \ {p} :
          ~(pc[p] = "ev_insert" /\ pc[q] = "ev_insert"
            /\ local[p].event.event_id = local[q].event.event_id)
          => local[p].sequence_number # local[q].sequence_number
    /\ last.op \in AdmissionOps \cup {"Event.create_event"}
          => last.outcome # "IntegrityError(sequence_number)"

\* C18 witness: an Event.create_event call with an event_id of its own failed on the
\* sequence_number another call had committed in the meantime.
C18_Witness ==
    /\ last.op = "Event.create_event"
    /\ last.outcome = "IntegrityError(sequence_number)"
    /\ \A e \in events : e.event_id # last.event_id

\* The committed events of type event_type among evs that belong to the payout r: the
\* payout's own events by aggregate_id, the ledger event by the payout's ledger id.
payout_log(evs, r, event_type) ==
    {e \in evs :
        /\ e.event_type = event_type
        /\ IF event_type = "LEDGER_TRANSACTION_CREATED"
           THEN e.event_id.key = payout_transaction_id(r.idempotency_key)
           ELSE e.aggregate_type = "Payout" /\ e.aggregate_id = r.id}

\* C19: on the happy path the global log holds the payout's PAYOUT_CREATED, then the
\* LEDGER_TRANSACTION_CREATED of its ledger transaction, then PAYOUT_PROCESSING, in
\* sequence_number order once process_payout has run on the PENDING payout, and a
\* PAYOUT_COMPLETED committed for a processed payout has all three below it.
C19_HappyPathEventOrder ==
    [][/\ \A p \in Procs : ProcessesPending(p) =>
            LET r == payout_by_id(local[p].payout_id)
            IN \E c \in payout_log(events', r, "PAYOUT_CREATED") :
               \E l \in payout_log(events', r, "LEDGER_TRANSACTION_CREATED") :
               \E g \in payout_log(events', r, "PAYOUT_PROCESSING") :
                  /\ c.sequence_number < l.sequence_number
                  /\ l.sequence_number < g.sequence_number
       /\ \A r \in payouts : payout_log(events, r, "PAYOUT_PROCESSING") # {} =>
            \A d \in payout_log(events', r, "PAYOUT_COMPLETED") \ events :
               \E c \in payout_log(events, r, "PAYOUT_CREATED") :
               \E l \in payout_log(events, r, "LEDGER_TRANSACTION_CREATED") :
               \E g \in payout_log(events, r, "PAYOUT_PROCESSING") :
                  /\ c.sequence_number < l.sequence_number
                  /\ l.sequence_number < g.sequence_number
                  /\ g.sequence_number < d.sequence_number]_vars

\* C19 witness: process_payout has run on a PENDING payout with both accounts present;
\* the log holds the payout's PAYOUT_CREATED and PAYOUT_PROCESSING events and no
\* LEDGER_TRANSACTION_CREATED event of its ledger transaction.
C19_Witness ==
    /\ last.op = "process_payout_task"
    /\ last.returned = "processed"
    /\ last.status_before = "PENDING"
    /\ last.accounts_found
    /\ \E r \in payouts :
         /\ r.amount > 0
         /\ \E c \in payout_log(events, r, "PAYOUT_CREATED") :
            \E g \in payout_log(events, r, "PAYOUT_PROCESSING") :
               c.sequence_number < g.sequence_number
         /\ payout_log(events, r, "LEDGER_TRANSACTION_CREATED") = {}

\* The PayoutEvent rows of payout_id whose event_type is one of types.
trail(payout_id, types) ==
    {e \in payout_events : e.payout = payout_id /\ e.event_type \in types}

\* Every row of `later` has a row of `earlier` recorded before it.
recorded_after(later, earlier) == \A e \in later : \E f \in earlier : f.n < e.n

\* The PayoutEvent types that record a completion or a failure.
CompletionRecords == {"EXTERNAL_PAYOUT_COMPLETED", "COMPLETED", "FAILED"}

\* C20: in every payout's PayoutEvent trail a PROCESSING_STARTED row has a CREATED row
\* before it, a LEDGER_ENTRY_CREATED row a PROCESSING_STARTED row before it, and a
\* completion or failure row a LEDGER_ENTRY_CREATED row before it.
C20_TrailCausalOrder ==
    \A r \in payouts :
        /\ recorded_after(trail(r.id, {"PROCESSING_STARTED"}), trail(r.id, {"CREATED"}))
        /\ recorded_after(trail(r.id, {"LEDGER_ENTRY_CREATED"}),
                          trail(r.id, {"PROCESSING_STARTED"}))
        /\ recorded_after(trail(r.id, CompletionRecords),
                          trail(r.id, {"LEDGER_ENTRY_CREATED"}))

\* C20 witness: a payout's trail holds an EXTERNAL_PAYOUT_COMPLETED row with its CREATED
\* row before it and neither a PROCESSING_STARTED nor a LEDGER_ENTRY_CREATED row.
C20_Witness ==
    \E r \in payouts :
        /\ trail(r.id, {"EXTERNAL_PAYOUT_COMPLETED"}) # {}
        /\ recorded_after(trail(r.id, {"EXTERNAL_PAYOUT_COMPLETED"}),
                          trail(r.id, {"CREATED"}))
        /\ trail(r.id, {"PROCESSING_STARTED", "LEDGER_ENTRY_CREATED"}) = {}

Rebuilds(code) ==
    /\ last'.tick # last.tick
    /\ last'.op = "AccountBalance.rebuild_for_account"
    /\ last'.account = code

\* C22: with the ledger entries unchanged, a second rebuild_for_account of an account
\* yields the balance of the first, whether its AccountBalance row is still there or
\* was deleted in between, and every rebuild leaves exactly one row for the account,
\* holding the balance it returned.
C22_RebuildIdempotent ==
    [][\A code \in accounts : Rebuilds(code) =>
          /\ ledger_entries' = ledger_entries
          /\ Cardinality({b \in account_balances' : b.account = code}) = 1
          /\ \A b \in account_balances' : b.account = code => b.balance = last'.balance
          /\ (last.op = "AccountBalance.rebuild_for_account" /\ last.account = code)
               => last'.balance = last.balance]_vars

\* C22 witness: the account's row was deleted after a first rebuild, and the rebuild was
\* called again: it created the row anew with a balance other than 0.
C22_Witness ==
    /\ last.op = "AccountBalance.rebuild_for_account"
    /\ last.repeated
    /\ last.created
    /\ last.balance # 0
    /\ \E b \in balance_rows(last.account) : b.balance = last.balance

RECURSIVE amount_total(_)
amount_total(rows) ==
    IF rows = {} THEN 0
    ELSE LET e == CHOOSE x \in rows : TRUE IN e.amount + amount_total(rows \ {e})

\* The stored entries of the account code with the given entry_type.
account_entries(code, entry_type) ==
    {e \in ledger_entries : e.account = code /\ e.entry_type = entry_type}

\* C23: the balance rebuild_for_account computes and stores is, for an ASSET or
\* EXPENSE account, the account's debits minus its credits, and for a LIABILITY, EQUITY
\* or REVENUE account its credits minus its debits.
C23_BalanceRule ==
    /\ last.op = "AccountBalance.rebuild_for_account" =>
         last.balance =
            IF account_type(last.account) \in {"ASSET", "EXPENSE"}
            THEN amount_total(account_entries(last.account, "DEBIT"))
                 - amount_total(account_entries(last.account, "CREDIT"))
            ELSE amount_total(account_entries(last.account, "CREDIT"))
                 - amount_total(account_entries(last.account, "DEBIT"))
    /\ \A b \in account_balances :
         /\ account_type(b.account) \in {"ASSET", "EXPENSE"} =>
              b.balance = amount_total(account_entries(b.account, "DEBIT"))
                          - amount_total(account_entries(b.account, "CREDIT"))
         /\ account_type(b.account) \in {"LIABILITY", "EQUITY", "REVENUE"} =>
              b.balance = amount_total(account_entries(b.account, "CREDIT"))
                          - amount_total(account_entries(b.account, "DEBIT"))

\* C23 witness: balances were rebuilt for an EXPENSE account holding only a CREDIT
\* (balance below 0) and for a REVENUE account holding a CREDIT (balance above 0).
C23_Witness ==
    /\ last.op = "AccountBalance.rebuild_for_account"
    /\ \E b \in account_balances :
         /\ account_type(b.account) = "EXPENSE"
         /\ account_entries(b.account, "CREDIT") # {}
         /\ b.balance < 0
    /\ \E b \in account_balances :
         /\ account_type(b.account) = "REVENUE"
         /\ account_entries(b.account, "CREDIT") # {}
         /\ b.balance > 0

ImmutableOps == {"LedgerEntry.save", "LedgerEntry.delete", "Event.save", "Event.delete"}

\* C24: no step removes or alters a stored LedgerEntry or Event (the tables only grow),
\* and save() on a stored row and delete() raise and leave both tables as they were.
C24_AppendOnly ==
    [][/\ ledger_entries \subseteq ledger_entries'
       /\ events \subseteq events'
       /\ (last'.tick # last.tick /\ last'.op \in ImmutableOps)
            => /\ last'.outcome = "ValueError"
               /\ ledger_entries' = ledger_entries
               /\ events' = events]_vars

\* C24 witness: save() was called on a stored LedgerEntry with a changed amount and
\* raised, with entries and events stored.
C24_Witness ==
    /\ last.op = "LedgerEntry.save"
    /\ last.outcome = "ValueError"
    /\ ledger_entries # {}
    /\ events # {}

\* C25: a posting of two entries whose amounts do not sum to zero, through either
\* entry point, raises ValueError and leaves the stored state as it was: no
\* Transaction, LedgerEntry or Event row is added, committed or pending, and no
\* AccountBalance changes.
C25_UnbalancedRejected ==
    [][(CallEnds(LedgerOps) /\ last'.n_entries = 2 /\ ~last'.balanced)
         => /\ last'.outcome = "ValueError"
            /\ UNCHANGED <<transactions, ledger_entries, events, account_balances, tx>>]_vars

\* C25 witness: with the accounts present and a Transaction already posted,
\* LedgerService.create_transaction was given two entries that do not balance and
\* raised ValueError.
C25_Witness ==
    /\ last.op = "LedgerService.create_transaction"
    /\ last.n_entries = 2
    /\ ~last.balanced
    /\ last.outcome = "ValueError"
    /\ OperationalAccounts \subseteq accounts
    /\ transactions # {}

\* C26: Transaction.create_transaction with entries +a (DEBIT) and -a (CREDIT), a > 0,
\* on two existing accounts and an unused transaction_id succeeds: it commits a
\* COMPLETED Transaction with exactly two LedgerEntries whose verify_balance() is true.
C26_SignedPostingSucceeds ==
    [][(/\ CallEnds({"Transaction.create_transaction"})
        /\ last'.n_entries = 2
        /\ last'.balanced
        /\ last'.amount > 0
        /\ OperationalAccounts \subseteq accounts
        /\ transaction_id_free(transactions, last'.transaction_id))
         => /\ last'.outcome = "ok"
            /\ \E t \in transactions' \ transactions :
                 /\ t.transaction_id = last'.transaction_id
                 /\ t.status = "COMPLETED"
                 /\ Cardinality(entries_of(ledger_entries', t.id)) = 2
                 /\ verify_balance(ledger_entries', t.id)]_vars

\* C26 witness: the posting of +a and -a, a > 0, on the existing accounts under an
\* unused transaction_id raised IntegrityError and stored nothing.
C26_Witness ==
    /\ last.op = "Transaction.create_transaction"
    /\ last.n_entries = 2
    /\ last.balanced
    /\ last.amount > 0
    /\ last.outcome = "IntegrityError"
    /\ OperationalAccounts \subseteq accounts
    /\ transaction_id_free(transactions, last.transaction_id)

\* The committed Transactions stored under transaction_id.
stored_under(transaction_id) ==
    {t \in transactions : t.transaction_id = transaction_id}

\* C27: a posting under a transaction_id that is already stored fails, through either
\* entry point, and leaves the stored Transaction, its entries, the event log and the
\* AccountBalances as they were.
C27_DuplicateRejected ==
    [][(CallEnds(LedgerOps) /\ stored_under(last'.transaction_id) # {})
         => /\ last'.outcome # "ok"
            /\ UNCHANGED <<transactions, ledger_entries, events, account_balances>>]_vars

\* C27 witness: a well-formed posting (two entries of amount 0 on existing accounts)
\* was refused with IntegrityError because its transaction_id is stored, with the
\* stored Transaction and its two entries in place.
C27_Witness ==
    /\ last.op \in LedgerOps
    /\ last.n_entries = 2
    /\ last.balanced
    /\ last.amount = 0
    /\ last.outcome = "IntegrityError"
    /\ OperationalAccounts \subseteq accounts
    /\ \E t \in stored_under(last.transaction_id) :
         Cardinality(entries_of(ledger_entries, t.id)) = 2

\* The LEDGER_TRANSACTION_CREATED events whose aggregate is the Transaction row trans_id.
ledger_transaction_created(trans_id) ==
    {e \in events : /\ e.event_type = "LEDGER_TRANSACTION_CREATED"
                    /\ e.aggregate_type = "Transaction"
                    /\ e.aggregate_id = trans_id}

\* C28: in every committed state each Transaction posted through
\* LedgerService.create_transaction has exactly one LEDGER_TRANSACTION_CREATED event
\* (so the two are committed together), and every LEDGER_TRANSACTION_CREATED event
\* belongs to a committed Transaction: a posting that was rejected or rolled back has
\* left none.
C28_OneLedgerEvent ==
    /\ \A t \in transactions : Cardinality(ledger_transaction_created(t.id)) = 1
    /\ \A e \in events : e.event_type = "LEDGER_TRANSACTION_CREATED" =>
          \E t \in transactions : /\ e.aggregate_id = t.id
                                  /\ e.event_data.transaction_id = t.transaction_id

\* C28 witness: a posting is committed with its event, and the last posting, which
\* had inserted its rows, was rolled back when its event's INSERT failed.
C28_Witness ==
    /\ \E t \in transactions : ledger_transaction_created(t.id) # {}
    /\ last.op = "LedgerService.create_transaction"
    /\ last.n_entries = 2
    /\ last.balanced
    /\ last.amount = 0
    /\ last.outcome = "IntegrityError"
    /\ stored_under(last.transaction_id) = {}

\* C29: a POST /api/payouts/ that got a payout back answers 201 exactly when this request
\* created the payout, and 200 when the payout existed already, whatever its status.
C29_CreatedStatusCode ==
    [][(CallEnds({"create_payout"}) /\ last'.outcome = "ok")
         => /\ last'.response = HTTP_201_CREATED <=> last'.created
            /\ ~last'.created => last'.response = HTTP_200_OK]_vars

\* C29 witness: a request whose key was stored already got the existing payout, still
\* PENDING, back and answered 201.
C29_Witness ==
    /\ last.op = "create_payout"
    /\ last.outcome = "ok"
    /\ ~last.created
    /\ last.response = HTTP_201_CREATED
    /\ \E r \in payouts : r.id = last.payout_id /\ r.status = "PENDING"

\* The requested amount (in thousandths) is 0, negative, or has more than two decimal
\* places.
InvalidAmount(amount) == amount <= 0 \/ amount % 10 # 0

\* C30: a POST /api/payouts/ whose amount is 0, negative or of more than two decimal
\* places is answered with a validation error and creates no Payout, PayoutEvent, Event
\* or PayoutSummary, committed or pending, and enqueues no job; a request of amount
\* 0.01 is not refused by validation.
C30_AmountValidation ==
    /\ [][(CallEnds({"create_payout"}) /\ InvalidAmount(last'.amount))
            => /\ last'.outcome = "ValidationError"
               /\ last'.response = HTTP_400_BAD_REQUEST
               /\ UNCHANGED <<payouts, payout_events, events, payout_summaries, queue>>]_vars
    /\ [](\A p \in Procs :
            (pc[p] \in {"ip_insert", "ip_event"} /\ local[p].op = "create_payout")
               => ~InvalidAmount(local[p].amount))
    /\ []((last.op = "create_payout" /\ last.amount = 10)
            => last.outcome # "ValidationError")

\* C30 witness: a request of amount 0.011 under a new key was answered 201 and its
\* payout is stored with amount 0.01 and its process_payout_task enqueued.
C30_Witness ==
    /\ last.op = "create_payout"
    /\ last.amount = 11
    /\ last.created
    /\ last.response = HTTP_201_CREATED
    /\ \E r \in payouts : r.id = last.payout_id /\ r.amount = 1
    /\ \E m \in queue : m.task = "process_payout_task" /\ m.payout_id = last.payout_id

\* C31: under duplicate or concurrent deliveries of initiate_external_payout a payout's
\* trail holds at most one EXTERNAL_PAYOUT_INITIATED row (at most one external payout
\* id is generated for it), and an external_payout_id once stored is never replaced.
C31_ExternalInitiationOnce ==
    /\ [](\A r \in payouts :
            Cardinality(trail(r.id, {"EXTERNAL_PAYOUT_INITIATED"})) <= 1)
    /\ [][\A r \in payouts : r.external_payout_id # None_ext =>
            \E s \in payouts' : s.id = r.id /\ s.external_payout_id = r.external_payout_id]_vars

\* C31 witness: two deliveries of initiate_external_payout for one PROCESSING payout
\* have each generated an id and recorded it, and the id stored first was replaced by
\* the other.
C31_Witness ==
    \E r \in payouts : \E e, f \in trail(r.id, {"EXTERNAL_PAYOUT_INITIATED"}) :
        /\ e.n < f.n
        /\ e.event_data.external_payout_id # f.event_data.external_payout_id
        /\ r.external_payout_id \in {e.event_data.external_payout_id,
                                     f.event_data.external_payout_id}
        /\ last.op = "initiate_external_payout"
        /\ last.returned = "initiated"
        /\ \A p \in Procs : pc[p] = "idle"

\* The task messages of the given kind held by the broker.
published(q, task) == {m \in q : m.task = task}

\* C32: a run of process_payout on a PENDING payout that finds CASH_001 or
\* PAYOUT_LIABILITY_001 missing commits the payout FAILED with a non-empty
\* error_message, posts no Transaction, publishes no initiate_external_payout and
\* schedules no retry; a later delivery of process_payout_task for a FAILED payout
\* leaves every payout as it is.
C32_MissingAccountsFail ==
    /\ [][(CallEnds({"process_payout_task"}) /\ last'.returned = "processed"
             /\ ~last'.accounts_found)
          => /\ last'.status_before = "PENDING"
             /\ last'.status_after = "FAILED"
             /\ \E r \in payouts : \E s \in payouts' :
                   /\ s.id = r.id
                   /\ payouts' = (payouts \ {r}) \cup {s}
                   /\ r.status = "PENDING"
                   /\ s.status = "FAILED"
                   /\ s.error_message \notin {NULL, ""}
                   /\ s.ledger_transaction_id = NULL
             /\ UNCHANGED <<transactions, ledger_entries>>
             /\ published(queue', "initiate_external_payout") = {}
             /\ ~last'.retry_scheduled
             /\ queue' \subseteq queue]_vars
    /\ [][(CallEnds({"process_payout_task"}) /\ last'.status_before = "FAILED")
          => /\ last'.status_after = "FAILED"
             /\ UNCHANGED <<payouts, transactions, ledger_entries>>]_vars

\* C32 witness: with only CASH_001 present a payout was processed and failed, and a
\* later delivery of process_payout_task for it has returned 'Already processed'.
C32_Witness ==
    /\ accounts = {CASH_ACCOUNT_CODE}
    /\ last.op = "process_payout_task"
    /\ last.returned = "Already processed"
    /\ last.status_before = "FAILED"
    /\ transactions = {}
    /\ \E r \in payouts :
          r.status = "FAILED" /\ r.error_message = "Required accounts not found"

\* C33: a payout's ledger_transaction_id changes only from null to "payout_" +
\* idempotency_key (so at most once), and whenever it is not null a Transaction with
\* that transaction_id is stored.
C33_LedgerTransactionIdWriteOnce ==
    /\ [][\A r \in payouts : \A s \in payouts' :
            (s.id = r.id /\ s.ledger_transaction_id # r.ledger_transaction_id)
               => /\ r.ledger_transaction_id = NULL
                  /\ s.ledger_transaction_id = payout_transaction_id(r.idempotency_key)]_vars
    /\ [](\A r \in payouts :
            r.ledger_transaction_id # NULL
               => \E t \in transactions : t.transaction_id = r.ledger_transaction_id)

\* C33 witness: a payout carries a ledger_transaction_id other than "payout_" + its
\* key, entered on the admin form, and no Transaction is stored under it.
C33_Witness ==
    \E r \in payouts :
        /\ r.ledger_transaction_id \notin {NULL, payout_transaction_id(r.idempotency_key)}
        /\ \A t \in transactions : t.transaction_id # r.ledger_transaction_id
        /\ last.op = "PayoutAdmin.change_view"
        /\ last.payout_id = r.id

\* The PROCESSING_STARTED rows of every payout's trail and the PAYOUT_PROCESSING events.
processing_records(pes, evs) ==
    {e \in pes : e.event_type = "PROCESSING_STARTED"}
    \cup {e \in evs : e.event_type = "PAYOUT_PROCESSING"}

\* C34: every payout has at most one PROCESSING_STARTED PayoutEvent and at most one
\* PAYOUT_PROCESSING Event, and only an invocation of process_payout that took the
\* payout from PENDING commits such a row: any other step adds none.
C34_ProcessingRecordedOnce ==
    /\ [](\A r \in payouts :
            /\ Cardinality(trail(r.id, {"PROCESSING_STARTED"})) <= 1
            /\ Cardinality(payout_log(events, r, "PAYOUT_PROCESSING")) <= 1)
    /\ [][processing_records(payout_events', events') # processing_records(payout_events, events)
            => /\ CallEnds({"process_payout_task"})
               /\ last'.returned = "processed"
               /\ last'.status_before = "PENDING"]_vars

\* C34 witness: a payout has one PROCESSING_STARTED row and one PAYOUT_PROCESSING
\* event, and a further invocation for it has ended in mark_processing's ValueError.
C34_Witness ==
    /\ last.op = "process_payout_task"
    /\ last.outcome = "ValueError"
    /\ \E r \in payouts :
          /\ Cardinality(trail(r.id, {"PROCESSING_STARTED"})) = 1
          /\ Cardinality(payout_log(events, r, "PAYOUT_PROCESSING")) = 1

\* C35: a run of process_payout that takes a PENDING payout, finds both accounts and no
\* earlier Transaction commits it PROCESSING and leaves an initiate_external_payout
\* job for it with the broker; and a committed PROCESSING payout with its ledger
\* transaction attached and no external_payout_id yet always has such a job waiting
\* or running, so that fair workers give it an external_payout_id.
C35_InitiationAfterCommit ==
    /\ [][(CallEnds({"process_payout_task"}) /\ last'.returned = "processed"
             /\ last'.accounts_found /\ ~last'.ledger_existed)
          => /\ last'.status_after = "PROCESSING"
             /\ published(queue', "initiate_external_payout") # {}]_vars
    /\ [](\A r \in payouts :
            (r.status = "PROCESSING" /\ r.ledger_transaction_id # NULL
               /\ r.external_payout_id = None_ext)
            => \E m \in published(queue, "initiate_external_payout") : m.payout_id = r.id)

\* C35 witness: process_payout has committed for a PENDING payout with both accounts
\* present, no job of initiate_external_payout is with the broker, and the payout has
\* no external_payout_id.
C35_Witness ==
    /\ last.op = "process_payout_task"
    /\ last.returned = "processed"
    /\ last.accounts_found
    /\ ~last.ledger_existed
    /\ published(queue, "initiate_external_payout") = {}
    /\ \A p \in Procs : pc[p] = "idle"
    /\ \E r \in payouts : r.status = "FAILED" /\ r.external_payout_id = None_ext

\* C36: every payout whose status is COMPLETED has a PayoutEvent of type COMPLETED in
\* its trail, and a run of complete_external_payout that completes a payout leaves
\* both an EXTERNAL_PAYOUT_COMPLETED and a COMPLETED row there.
C36_CompletedRecorded ==
    /\ \A r \in payouts : r.status = "COMPLETED" => trail(r.id, {"COMPLETED"}) # {}
    /\ (last.op = "complete_external_payout" /\ last.returned = "completed")
          => \E r \in payouts :
               /\ trail(r.id, {"EXTERNAL_PAYOUT_COMPLETED"}) # {}
               /\ trail(r.id, {"COMPLETED"}) # {}

\* C36 witness: complete_external_payout has run to its end for a payout, which is
\* COMPLETED with an EXTERNAL_PAYOUT_COMPLETED row and no COMPLETED row in its trail.
C36_Witness ==
    /\ last.op = "complete_external_payout"
    /\ last.returned = "completed"
    /\ \E r \in payouts :
          /\ r.status = "COMPLETED"
          /\ trail(r.id, {"EXTERNAL_PAYOUT_COMPLETED"}) # {}
          /\ trail(r.id, {"COMPLETED"}) = {}

\* C37: when a posting through LedgerService.create_transaction commits, the
\* AccountBalance row of every account it posted to carries, as last_event_sequence,
\* the sequence_number of the LEDGER_TRANSACTION_CREATED event of that posting; and no
\* row's last_event_sequence ever decreases.
C37_LastEventSequence ==
    /\ [][(CallEnds({"LedgerService.create_transaction"}) /\ last'.outcome = "ok")
          => \A ev \in events' \ events : \A entry \in ledger_entries' \ ledger_entries :
                \E b \in account_balances' :
                   /\ b.account = entry.account
                   /\ b.last_event_sequence = ev.sequence_number]_vars
    /\ [][\A b \in account_balances : \A c \in account_balances' :
             c.account = b.account => c.last_event_sequence >= b.last_event_sequence]_vars

\* C37 witness: a posting through LedgerService.create_transaction is committed, its
\* event has a sequence_number of 1 or more, and the AccountBalance rows of its
\* accounts have last_event_sequence 0.
C37_Witness ==
    /\ last.op = "LedgerService.create_transaction"
    /\ last.outcome = "ok"
    /\ \E t \in stored_under(last.transaction_id) :
          /\ \E ev \in ledger_transaction_created(t.id) : ev.sequence_number >= 1
          /\ entries_of(ledger_entries, t.id) # {}
          /\ \A entry \in entries_of(ledger_entries, t.id) :
                \E b \in balance_rows(entry.account) : b.last_event_sequence = 0

\* The PayoutSummary rows of a payout.
summaries_of(payout_id) == {s \in payout_summaries : s.payout = payout_id}

\* C38: every stored Payout has exactly one PayoutSummary, and the summary of a payout
\* whose status is COMPLETED or FAILED carries that status.
C38_SummaryFollowsPayout ==
    \A r \in payouts :
        /\ Cardinality(summaries_of(r.id)) = 1
        /\ r.status \in {"COMPLETED", "FAILED"}
              => \A s \in summaries_of(r.id) : s.status = r.status

\* C38 witness: process_payout has committed a payout FAILED, no handler is under way,
\* and the payout's one PayoutSummary still says PENDING.
C38_Witness ==
    /\ last.op = "process_payout_task"
    /\ last.returned = "processed"
    /\ last.status_after = "FAILED"
    /\ \A p \in Procs : pc[p] = "idle"
    /\ \E r \in payouts :
          /\ r.status = "FAILED"
          /\ Cardinality(summaries_of(r.id)) = 1
          /\ \A s \in summaries_of(r.id) : s.status = "PENDING"

\* C39: every step that moves a payout to CANCELLED takes it from PENDING with no
\* ledger transaction attached and records a PayoutEvent and an Event for it.
C39_CancelRecorded ==
    [][\A r \in payouts : \A s \in payouts' :
          (s.id = r.id /\ r.status # "CANCELLED" /\ s.status = "CANCELLED")
             => /\ r.status = "PENDING"
                /\ r.ledger_transaction_id = NULL
                /\ \E e \in payout_events' \ payout_events : e.payout = r.id
                /\ \E e \in events' \ events :
                      e.aggregate_type = "Payout" /\ e.aggregate_id = r.id]_vars

\* C39 witness: a PENDING payout with no ledger transaction was set to CANCELLED on the
\* admin form, and its trail and the event log hold what its admission recorded only.
C39_Witness ==
    /\ last.op = "PayoutAdmin.change_view"
    /\ last.status_before = "PENDING"
    /\ last.status_after = "CANCELLED"
    /\ \E r \in payouts :
          /\ r.id = last.payout_id
          /\ r.status = "CANCELLED"
          /\ r.ledger_transaction_id = NULL
          /\ {e.event_type : e \in trail(r.id, {"CREATED", "CANCELLED", "FAILED", "RETRY"})}
                = {"CREATED"}
          /\ \A e \in events : e.aggregate_id = r.id => e.event_type = "PAYOUT_CREATED"

====
